---- MODULE Spec2Model ----
(***************************************************************************)
(* Model of the git-backed contact store of contacts-mcp                   *)
(* (src/store/git-store.ts, src/store/git-ops.ts, src/store/file-layout.ts)*)
(*                                                                         *)
(* The repository is modelled at the level of whole files: a working tree, *)
(* the git index, a linear commit history and the tags.  A vCard file is   *)
(* abstracted to the two values the store itself sets in it: the display   *)
(* name (FN) and the modified stamp (REV).                                 *)
(*                                                                         *)
(* Spec     : the store operations, one handler per step (single caller).  *)
(* LockSpec : concurrent callers, the lock protocol of withLock unfolded   *)
(*            into its awaits, wall-clock time in milliseconds.            *)
(***************************************************************************)
EXTENDS Integers, Sequences, FiniteSets, TLC

\* ---------------------------------------------------------------- bounds
NumIds == 2
NumNames == 1
MaxNow == 4
MaxBatch == 2
MaxCount == 2
MaxFaults == 1

\* ------------------------------------------------------ program constants
StaleMs == 30000
LogMax == 100

Ids == 1..NumIds
Names == 1..NumNames

CONTACTS_DIR == "contacts"
ARCHIVE_DIR == "archive"
Dirs == {CONTACTS_DIR, ARCHIVE_DIR}

\* A record path is <<directory, id>> ("contacts/<id>.vcf", "archive/<id>.vcf").
contactPath(id) == <<CONTACTS_DIR, id>>
archivePath(id) == <<ARCHIVE_DIR, id>>
RecPaths == Dirs \X Ids

\* A vCard file: FN and REV; NoFile stands for "no file at this path".
NoFile == [fullName |-> 0, modified |-> 0]
Undefined == 0

\* A tree: the record files and the .gitignore written by init.
EmptyFiles == [p \in RecPaths |-> NoFile]
EmptyTree == [files |-> EmptyFiles, gitignore |-> FALSE]

VARIABLES
  work,      \* files on disk (same shape as a tree)
  dirs,      \* which of contacts/ and archive/ exist on disk
  index,     \* the git index (staged tree)
  commits,   \* the history, oldest first: [msg, tree]; the hash is the position
  tags,      \* set of [name |-> <<kind, ts>>, commit |-> position]
  mergeLog,  \* .metadata/merge-log.json
  lock,      \* the .lock file: NoLock or [owner, mtime]
  now,       \* Date.now()
  pc,        \* LockSpec: where each caller is inside withLock
  req,       \* LockSpec: the operation each caller runs
  out,       \* LockSpec: how each caller's operation ended
  started,   \* LockSpec: number of operations started
  faults,    \* number of failures of the underlying git calls so far
  vcard,     \* CodecSpec, RoundTripSpec: the text of one record file, line by line
  contacts,  \* MergeSpec, DedupSpec, RoundTripSpec: the records passed in
  args,      \* MergeSpec, DedupSpec: the other arguments of the call
  returned,  \* MergeSpec, DedupSpec, RoundTripSpec: what the call returned
  providerIds, \* SyncSpec: metadata.providerIds of each active record file
  remote,    \* SyncSpec: the records the provider holds, by remote id
  lastSync,  \* SyncSpec: the provider's last sync time
  last       \* the operation of the last step, its inputs and its outcome

\* The arguments and the result of a call of the linkage engine, the merge
\* resolver or the codec; the state of a sync with one provider.
linkVars == <<contacts, args, returned>>
syncVars == <<providerIds, remote, lastSync>>

vars == <<work, dirs, index, commits, tags, mergeLog, lock, now, pc, req, out, started, faults, vcard,
          contacts, args, returned, providerIds, remote, lastSync, last>>

\* The store as one value, so that a handler is a composition of steps.
Store == [work |-> work, dirs |-> dirs, index |-> index, commits |-> commits,
          tags |-> tags, mergeLog |-> mergeLog]

HeadTree(S) == S.commits[Len(S.commits)].tree

\* ------------------------------------------------------------ git-ops.ts
Ok(S) == [ok |-> TRUE, st |-> S]
Fail(S) == [ok |-> FALSE, st |-> S]

\* Files present in a directory of the working tree.
DirEmpty(files, d) == \A i \in Ids : files[<<d, i>>] = NoFile

\* git removes a directory it has emptied, and creates the ones it needs.
DirsAfterGit(S, files) ==
  [d \in Dirs |-> IF DirEmpty(files, d)
                    THEN S.dirs[d] /\ DirEmpty(S.work.files, d)
                    ELSE TRUE]

\* fs.writeFile(path): ENOENT when the directory is missing.
fs_writeFile(S, p, c) ==
  IF ~S.dirs[p[1]] THEN Fail(S)
  ELSE Ok([S EXCEPT !.work.files[p] = c])

\* fs.rename(from, to): ENOENT when the source or the target directory is missing.
fs_rename(S, from, to) ==
  IF S.work.files[from] = NoFile \/ ~S.dirs[to[1]] THEN Fail(S)
  ELSE Ok([S EXCEPT !.work.files[to] = S.work.files[from],
                    !.work.files[from] = NoFile])

\* git add <paths>: dies before staging anything when a path matches neither a
\* file on disk nor an index entry; otherwise stages content and removals.
git_addMultiple(S, P, fault) ==
  IF P = {} THEN Ok(S)
  ELSE IF fault THEN Fail(S)
  ELSE IF \E p \in P : S.work.files[p] = NoFile /\ S.index.files[p] = NoFile THEN Fail(S)
  ELSE Ok([S EXCEPT !.index.files =
             [p \in RecPaths |-> IF p \in P THEN S.work.files[p] ELSE S.index.files[p]]])

git_add(S, p, fault) ==
  IF fault THEN Fail(S) ELSE git_addMultiple(S, {p}, FALSE)

\* git commit -m: with nothing staged git exits 1 with its message on stdout,
\* which simple-git does not raise: no commit, an empty hash.
git_commit(S, msg, fault) ==
  IF fault THEN [ok |-> FALSE, st |-> S, hash |-> 0]
  ELSE IF S.index = HeadTree(S) THEN [ok |-> TRUE, st |-> S, hash |-> 0]
  ELSE [ok |-> TRUE,
        st |-> [S EXCEPT !.commits = Append(S.commits, [msg |-> msg, tree |-> S.index])],
        hash |-> Len(S.commits) + 1]

\* git tag <name>: tags HEAD, fails when the name is taken.
git_tag(S, name) ==
  IF \E t \in S.tags : t.name = name THEN Fail(S)
  ELSE Ok([S EXCEPT !.tags = S.tags \cup {[name |-> name, commit |-> Len(S.commits)]}])

git_listTags(S) == {t.name : t \in S.tags}

\* git log --max-count: hashes newest first; a falsy maxCount sets no limit.
git_log(S, maxCount) ==
  LET n == Len(S.commits)
      k == IF maxCount = 0 \/ maxCount > n THEN n ELSE maxCount
  IN [i \in 1..k |-> n + 1 - i]

\* git rm <path>: the path must be in the index, and a file on disk must be
\* identical to both the index and HEAD.
git_remove(S, p, fault) ==
  IF fault THEN Fail(S)
  ELSE IF S.index.files[p] = NoFile THEN Fail(S)
  ELSE IF S.work.files[p] # NoFile
          /\ (S.work.files[p] # S.index.files[p] \/ S.index.files[p] # HeadTree(S).files[p])
       THEN Fail(S)
  ELSE LET files == [S.work.files EXCEPT ![p] = NoFile]
       IN Ok([S EXCEPT !.index.files[p] = NoFile,
                       !.work.files = files,
                       !.dirs = DirsAfterGit(S, files)])

\* GitOps.move: mkdir of the target directory, fs.rename, git add [from, to].
git_move(S, from, to, fault) ==
  LET S0 == [S EXCEPT !.dirs[to[1]] = TRUE]
      r == fs_rename(S0, from, to)
  IN IF ~r.ok THEN Fail(S0)
     ELSE LET a == git_addMultiple(r.st, {from, to}, fault)
          IN IF a.ok THEN Ok(a.st) ELSE Fail(r.st)

\* Three-way choice of git revert for one path: base is the reverted commit,
\* theirs its parent, ours HEAD.
Merge3(base, theirs, ours) ==
  IF base = theirs THEN ours
  ELSE IF ours = base THEN theirs
  ELSE ours

Conflict3(base, theirs, ours) == base # theirs /\ ours # base /\ ours # theirs

\* What a rollback by "git reset --hard <hash>^" would do instead of a revert:
\* the history is cut back to the parent of the commit.
git_revert_reset(S, h) ==
  IF h = 1 \/ h > Len(S.commits) THEN Fail(S)
  ELSE Ok([S EXCEPT !.commits = SubSeq(S.commits, 1, h - 1),
                    !.index = S.commits[h - 1].tree,
                    !.work = S.commits[h - 1].tree,
                    !.dirs = DirsAfterGit(S, S.commits[h - 1].tree.files)])

\* git revert --no-edit <hash>: refuses a dirty index and local changes to the
\* files it must rewrite; else commits the inverse change and updates the disk.
git_revert(S, h) ==
  LET base == S.commits[h].tree
      theirs == IF h = 1 THEN EmptyTree ELSE S.commits[h - 1].tree
      ours == HeadTree(S)
      files == [p \in RecPaths |-> Merge3(base.files[p], theirs.files[p], ours.files[p])]
      ign == Merge3(base.gitignore, theirs.gitignore, ours.gitignore)
      result == [files |-> files, gitignore |-> ign]
      touched == {p \in RecPaths : files[p] # ours.files[p]}
      newWork == [p \in RecPaths |-> IF p \in touched THEN files[p] ELSE S.work.files[p]]
  IN IF S.index # ours THEN Fail(S)
     ELSE IF \E p \in RecPaths : Conflict3(base.files[p], theirs.files[p], ours.files[p])
       THEN Fail(S)
     ELSE IF \E p \in touched : S.work.files[p] # ours.files[p] THEN Fail(S)
     ELSE IF ign # ours.gitignore /\ S.work.gitignore # ours.gitignore THEN Fail(S)
     ELSE IF result = ours THEN Fail(S)
     ELSE Ok([S EXCEPT !.index = result,
                       !.work = [files |-> newWork,
                                 gitignore |-> IF ign # ours.gitignore THEN ign
                                               ELSE S.work.gitignore],
                       !.dirs = DirsAfterGit(S, newWork),
                       !.commits = Append(S.commits, [msg |-> "Revert", tree |-> result])])

\* ----------------------------------------------------------- git-store.ts
\* How a handler ends: res is "ok" or the error thrown; n and tag are what
\* it returns (a count, a commit hash, the safety tag).
Return(S, n, tag) == [st |-> S, res |-> "ok", n |-> n, tag |-> tag]
Throw(S, err) == [st |-> S, res |-> err, n |-> 0, tag |-> <<>>]

Faults == {"none", "add", "commit"}

\* get(id): contacts/ first, then archive/.
get(S, id) ==
  IF S.work.files[contactPath(id)] # NoFile
    THEN [found |-> TRUE, contact |-> S.work.files[contactPath(id)]]
  ELSE IF S.work.files[archivePath(id)] # NoFile
    THEN [found |-> TRUE, contact |-> S.work.files[archivePath(id)]]
  ELSE [found |-> FALSE, contact |-> NoFile]

\* list(includeArchived): the ids read from contacts/ (and archive/).
list(S, includeArchived) ==
  {i \in Ids : S.work.files[contactPath(i)] # NoFile}
    \cup (IF includeArchived THEN {i \in Ids : S.work.files[archivePath(i)] # NoFile} ELSE {})

\* createContact: metadata given by the caller is kept, else stamped with now.
createContact(fields, ts) ==
  [fullName |-> fields.fullName,
   modified |-> IF fields.metadata = Undefined THEN ts ELSE fields.metadata]

\* create(fields): write contacts/<id>.vcf, git add, git commit.
create(S, fields, ts, fault) ==
  LET contact == createContact(fields, ts)
      w == fs_writeFile(S, contactPath(fields.id), contact)
  IN IF ~w.ok THEN Throw(S, "ENOENT")
     ELSE LET a == git_add(w.st, contactPath(fields.id), fault = "add")
          IN IF ~a.ok THEN Throw(a.st, "GitError")
             ELSE LET c == git_commit(a.st, "Create contact", fault = "commit")
                  IN IF ~c.ok THEN Throw(c.st, "GitError")
                     ELSE Return(c.st, c.hash, <<>>)

\* update that creates the record when get finds none.
update_upsert(S, id, updates, ts, fault) ==
  LET existing == get(S, id)
      normalized == [fullName |-> IF updates.fullName # Undefined THEN updates.fullName
                                  ELSE IF existing.found THEN existing.contact.fullName
                                  ELSE 1,
                     modified |-> ts]
      w == fs_writeFile(S, contactPath(id), normalized)
  IN IF ~w.ok THEN Throw(S, "ENOENT")
     ELSE LET a == git_add(w.st, contactPath(id), fault = "add")
          IN IF ~a.ok THEN Throw(a.st, "GitError")
             ELSE LET c == git_commit(a.st, "Update contact", fault = "commit")
                  IN IF ~c.ok THEN Throw(c.st, "GitError")
                     ELSE Return(c.st, c.hash, <<>>)

\* update(id, updates): the record read by get, rewritten under contacts/.
update(S, id, updates, ts, fault) ==
  LET existing == get(S, id)
      normalized == [fullName |-> IF updates.fullName # Undefined THEN updates.fullName
                                  ELSE existing.contact.fullName,
                     modified |-> ts]
      w == fs_writeFile(S, contactPath(id), normalized)
  IN IF ~existing.found THEN Throw(S, "ContactNotFoundError")
     ELSE IF ~w.ok THEN Throw(S, "ENOENT")
     ELSE LET a == git_add(w.st, contactPath(id), fault = "add")
          IN IF ~a.ok THEN Throw(a.st, "GitError")
             ELSE LET c == git_commit(a.st, "Update contact", fault = "commit")
                  IN IF ~c.ok THEN Throw(c.st, "GitError")
                     ELSE Return(c.st, c.hash, <<>>)

\* delete(id, permanent): git rm of contacts/<id> (else of archive/<id>), or
\* a move to archive/; then the commit.
delete(S, id, permanent, fault) ==
  LET contact == get(S, id)
  IN IF ~contact.found THEN Throw(S, "ContactNotFoundError")
     ELSE IF permanent
       THEN LET r1 == git_remove(S, contactPath(id), fault = "add")
                r2 == IF r1.ok THEN r1 ELSE git_remove(S, archivePath(id), fault = "add")
            IN IF ~r2.ok THEN Throw(r2.st, "GitError")
               ELSE LET c == git_commit(r2.st, "Delete contact permanently", fault = "commit")
                    IN IF ~c.ok THEN Throw(c.st, "GitError")
                       ELSE Return(c.st, 0, <<>>)
       ELSE LET m == git_move(S, contactPath(id), archivePath(id), fault = "add")
            IN IF ~m.ok THEN Throw(m.st, IF m.st.work = S.work THEN "ENOENT" ELSE "GitError")
               ELSE LET c == git_commit(m.st, "Archive contact", fault = "commit")
                    IN IF ~c.ok THEN Throw(c.st, "GitError")
                       ELSE Return(c.st, 0, <<>>)

\* The loop of bulkCreate: one file per record of the batch, in order.
RECURSIVE writeBatch(_, _, _)
writeBatch(S, batch, ts) ==
  IF batch = <<>> THEN Ok(S)
  ELSE LET w == fs_writeFile(S, contactPath(Head(batch).id),
                             [fullName |-> Head(batch).fullName, modified |-> ts])
       IN IF ~w.ok THEN Fail(S) ELSE writeBatch(w.st, Tail(batch), ts)

\* bulkCreate with both tags taken before the files are written and committed.
bulkCreate_tagsFirst(S, batch, ts, fault) ==
  LET t1 == git_tag(S, <<"pre-import", ts>>)
      t2 == git_tag(t1.st, <<"post-import", ts>>)
      w == writeBatch(t2.st, batch, ts)
      paths == {contactPath(batch[i].id) : i \in 1..Len(batch)}
      a == git_addMultiple(w.st, paths, fault = "add")
      c == git_commit(a.st, "Import", fault = "commit")
  IN IF ~t1.ok \/ ~t2.ok THEN Throw(S, "GitError")
     ELSE IF ~w.ok THEN Throw(w.st, "ENOENT")
     ELSE IF ~a.ok THEN Throw(a.st, "GitError")
     ELSE IF ~c.ok THEN Throw(c.st, "GitError")
     ELSE Return(c.st, Len(batch), <<>>)

\* bulkCreate(contacts): pre-import tag, the files, one commit, post-import tag.
bulkCreate(S, batch, ts, fault) ==
  LET t1 == git_tag(S, <<"pre-import", ts>>)
  IN IF ~t1.ok THEN Throw(S, "GitError")
     ELSE LET w == writeBatch(t1.st, batch, ts)
              paths == {contactPath(batch[i].id) : i \in 1..Len(batch)}
          IN IF ~w.ok THEN Throw(w.st, "ENOENT")
             ELSE LET a == git_addMultiple(w.st, paths, fault = "add")
                  IN IF ~a.ok THEN Throw(a.st, "GitError")
                     ELSE LET c == git_commit(a.st, "Import", fault = "commit")
                          IN IF ~c.ok THEN Throw(c.st, "GitError")
                             ELSE LET t2 == git_tag(c.st, <<"post-import", ts>>)
                                  IN IF ~t2.ok THEN Throw(t2.st, "GitError")
                                     ELSE Return(t2.st, Len(batch), <<>>)

\* The revert loop with the counter advanced before the revert is awaited.
RECURSIVE revertEach_countAttempts(_, _, _)
revertEach_countAttempts(S, hashes, n) ==
  IF hashes = <<>> THEN [st |-> S, n |-> n]
  ELSE LET r == git_revert(S, Head(hashes))
       IN IF r.ok THEN revertEach_countAttempts(r.st, Tail(hashes), n + 1)
          ELSE [st |-> r.st, n |-> n + 1]

\* The revert loops of rollback: newest first, stop at the first failure.
RECURSIVE revertEach(_, _, _)
revertEach(S, hashes, n) ==
  IF hashes = <<>> THEN [st |-> S, n |-> n]
  ELSE LET r == git_revert(S, Head(hashes))
       IN IF r.ok THEN revertEach(r.st, Tail(hashes), n + 1)
          ELSE [st |-> r.st, n |-> n]

\* The entries of the log before the first one whose hash is commitHash.
RECURSIVE upTo(_, _)
upTo(hashes, commitHash) ==
  IF hashes = <<>> \/ Head(hashes) = commitHash THEN <<>>
  ELSE <<Head(hashes)>> \o upTo(Tail(hashes), commitHash)

\* rollback with the dry-run return placed before the safety tag.
rollback_dryRunFirst(S, options, ts) ==
  LET safetyTag == <<"pre-rollback", ts>>
      t == git_tag(S, safetyTag)
  IN IF options.dryRun THEN Return(S, 0, safetyTag)
     ELSE IF ~t.ok THEN Throw(S, "GitError")
     ELSE IF options.mode = "last-n"
       THEN LET r == revertEach(t.st, git_log(t.st, options.count), 0)
            IN Return(r.st, r.n, safetyTag)
     ELSE IF options.mode = "to-commit"
       THEN IF options.commitHash = Undefined THEN Throw(t.st, "StoreError")
            ELSE LET r == revertEach(t.st, upTo(git_log(t.st, LogMax), options.commitHash), 0)
                 IN Return(r.st, r.n, safetyTag)
     ELSE IF options.tagName = <<>> THEN Throw(t.st, "StoreError")
          ELSE IF options.tagName \notin git_listTags(t.st) THEN Throw(t.st, "StoreError")
          ELSE LET r == revertEach(t.st, git_log(t.st, LogMax), 0)
               IN Return(r.st, r.n, safetyTag)

\* rollback(options): the safety tag first, then the reverts of the mode.
rollback(S, options, ts) ==
  LET safetyTag == <<"pre-rollback", ts>>
      t == git_tag(S, safetyTag)
  IN IF ~t.ok THEN Throw(S, "GitError")
     ELSE IF options.dryRun THEN Return(t.st, 0, safetyTag)
     ELSE IF options.mode = "last-n"
       THEN LET r == revertEach(t.st, git_log(t.st, options.count), 0)
            IN Return(r.st, r.n, safetyTag)
     ELSE IF options.mode = "to-commit"
       THEN IF options.commitHash = Undefined THEN Throw(t.st, "StoreError")
            ELSE LET r == revertEach(t.st, upTo(git_log(t.st, LogMax), options.commitHash), 0)
                 IN Return(r.st, r.n, safetyTag)
     ELSE IF options.tagName = <<>> THEN Throw(t.st, "StoreError")
          ELSE IF options.tagName \notin git_listTags(t.st) THEN Throw(t.st, "StoreError")
          ELSE LET r == revertEach(t.st, git_log(t.st, LogMax), 0)
               IN Return(r.st, r.n, safetyTag)

\* updateMergeLog: the log read, one entry pushed, the log written back.
updateMergeLog(S, primaryId, secondaryIds, ts) ==
  [S EXCEPT !.mergeLog = Append(S.mergeLog,
     [timestamp |-> ts, primaryId |-> primaryId, secondaryIds |-> secondaryIds])]

\* The rename loop of mergeAndArchive: ENOENT is skipped.
RECURSIVE archiveEach(_, _, _)
archiveEach(S, secs, paths) ==
  IF secs = <<>> THEN [st |-> S, paths |-> paths]
  ELSE LET r == fs_rename(S, contactPath(Head(secs)), archivePath(Head(secs)))
       IN IF r.ok
            THEN archiveEach(r.st, Tail(secs),
                             paths \cup {contactPath(Head(secs)), archivePath(Head(secs))})
            ELSE archiveEach(S, Tail(secs), paths)

\* mergeAndArchive(primaryId, secondaryIds, mergedContact).
mergeAndArchive(S, primaryId, secondaryIds, mergedContact, ts, fault) ==
  LET w == fs_writeFile(S, contactPath(primaryId), mergedContact)
  IN IF ~w.ok THEN Throw(S, "ENOENT")
     ELSE LET m == archiveEach(w.st, secondaryIds, {contactPath(primaryId)})
              a == git_addMultiple(m.st, m.paths, fault = "add")
          IN IF ~a.ok THEN Throw(a.st, "GitError")
             ELSE LET c == git_commit(a.st, "Merge contacts", fault = "commit")
                  IN IF ~c.ok THEN Throw(c.st, "GitError")
                     ELSE Return(updateMergeLog(c.st, primaryId, secondaryIds, ts), c.hash, <<>>)

\* init without the checkIsRepo test: the initial commit is made again.
init_always(S) ==
  [S EXCEPT !.dirs = [d \in Dirs |-> TRUE],
            !.work.gitignore = TRUE,
            !.index = [files |-> EmptyFiles, gitignore |-> TRUE],
            !.commits = Append(S.commits, [msg |-> "Initial commit",
                                           tree |-> [files |-> EmptyFiles, gitignore |-> TRUE]])]

\* GitOps.init on a store that is already a repository: the mkdirs only.
init(S) == [S EXCEPT !.dirs = [d \in Dirs |-> TRUE]]

\* parseOperation(message): the first word of the message decides.
parseOperation(message) ==
  IF message = "Create contact" THEN "create"
  ELSE IF message = "Update contact" THEN "update"
  ELSE IF message \in {"Archive contact", "Delete contact permanently"} THEN "delete"
  ELSE IF message = "Merge contacts" THEN "merge"
  ELSE IF message = "Import" THEN "import"
  ELSE IF message = "Revert" THEN "rollback"
  ELSE "update"

\* getHistory(limit): the log, newest first, each message classified.
getHistory(S, limit) ==
  LET log == git_log(S, limit)
  IN [i \in 1..Len(log) |-> [hash |-> log[i], operation |-> parseOperation(S.commits[log[i]].msg)]]

\* ------------------------------------------------------------------ state
NumProcs == 2
Procs == 1..NumProcs

NoLock == [owner |-> 0, mtime |-> 0]
NoReq == [op |-> "none"]
NoLast == [op |-> "init", res |-> "ok"]

\* No call of the linkage engine, the merge resolver or the codec is made,
\* and no provider is configured (Spec, LockSpec, RevertSpec, CodecSpec).
NoResult == [op |-> "none"]
NoLink == contacts = <<>> /\ args = NoResult /\ returned = NoResult
NoSync == providerIds = <<>> /\ remote = <<>> /\ lastSync = 0

\* No record file is looked at (Spec, LockSpec, RevertSpec).
NoCard == [FN |-> <<>>, NOTE |-> <<>>, CATEGORIES |-> <<>>, REV |-> 0]

\* The store right after GitOps.init on an empty directory: the three
\* directories, .gitignore and the "Initial commit".
InitTree == [files |-> EmptyFiles, gitignore |-> TRUE]

Init ==
  /\ work = InitTree
  /\ dirs = [d \in Dirs |-> TRUE]
  /\ index = InitTree
  /\ commits = <<[msg |-> "Initial commit", tree |-> InitTree]>>
  /\ tags = {}
  /\ mergeLog = <<>>
  /\ lock = NoLock
  /\ now = 1
  /\ pc = [p \in Procs |-> "idle"]
  /\ req = [p \in Procs |-> NoReq]
  /\ out = [p \in Procs |-> "none"]
  /\ started = 0
  /\ faults = 0
  /\ vcard = NoCard
  /\ NoLink
  /\ NoSync
  /\ last = NoLast

\* ----------------------------------------------------------------- inputs
\* What a caller passes to create: new fields, or a record read from the store.
CreateInputs(S) ==
  {[id |-> i, fullName |-> n, metadata |-> Undefined] : i \in Ids, n \in Names}
    \cup {[id |-> i, fullName |-> get(S, i).contact.fullName,
           metadata |-> get(S, i).contact.modified] : i \in {j \in Ids : get(S, j).found}}

UpdateInputs == [fullName : Names \cup {Undefined}]

\* Batches of bulkCreate: up to MaxBatch records, ids given by the caller.
RECURSIVE SeqsUpTo(_, _)
SeqsUpTo(S, n) ==
  IF n = 0 THEN {<<>>}
  ELSE SeqsUpTo(S, n - 1) \cup {Append(q, x) : q \in {r \in SeqsUpTo(S, n - 1) : Len(r) = n - 1}, x \in S}

NameAt(i) == ((i - 1) % NumNames) + 1
Batches == {[i \in 1..Len(q) |-> [id |-> q[i], fullName |-> NameAt(i)]] : q \in SeqsUpTo(Ids, MaxBatch)}

\* Secondary id lists of mergeAndArchive: without repetition, in id order.
RECURSIVE SetToSeq(_)
SetToSeq(A) ==
  IF A = {} THEN <<>>
  ELSE LET x == CHOOSE y \in A : \A z \in A : y <= z
       IN <<x>> \o SetToSeq(A \ {x})

BadHash == 0 - 1
BadTag == <<"no-such-tag", 0>>

\* A dry run returns before it reads anything but dryRun: one input per mode.
RollbackInputs(S) ==
  {[mode |-> "last-n", count |-> c, commitHash |-> Undefined, tagName |-> <<>>, dryRun |-> FALSE]
     : c \in 0..MaxCount}
  \cup {[mode |-> "to-commit", count |-> 1, commitHash |-> h, tagName |-> <<>>, dryRun |-> FALSE]
     : h \in {Undefined, BadHash} \cup ((Len(S.commits) - 1)..Len(S.commits) \ {0})}
  \cup {[mode |-> "to-tag", count |-> 1, commitHash |-> Undefined, tagName |-> t, dryRun |-> FALSE]
     : t \in {<<>>, BadTag} \cup git_listTags(S)}
  \cup {[mode |-> m, count |-> 1, commitHash |-> Undefined, tagName |-> <<>>, dryRun |-> TRUE]
     : m \in {"last-n", "to-commit", "to-tag"}}

\* ---------------------------------------------------------------- actions
\* A handler's effect on the store.  A call takes at least a millisecond
\* (it spawns git or at least touches the disk): the next one reads a later clock.
Apply(r) ==
  /\ work' = r.st.work
  /\ dirs' = r.st.dirs
  /\ index' = r.st.index
  /\ commits' = r.st.commits
  /\ tags' = r.st.tags
  /\ mergeLog' = r.st.mergeLog
  /\ now' = now + 1

\* The working tree and the index hold exactly the last commit.
Clean(S) == S.work.files = HeadTree(S).files /\ S.index = HeadTree(S)

\* What the last call was: its inputs, its outcome, and what it found (the
\* number of commits, whether the tree was clean) and whether it wrote files.
Record(op, arg, r) ==
  last' = [op |-> op, arg |-> arg, res |-> r.res, n |-> r.n, tag |-> r.tag,
           pre |-> Len(commits), clean |-> Clean(Store), wrote |-> r.st.work # work]

\* withLock for a single caller: the lock is free, taken, and released in
\* the finally.  The run ends when the clock reads limit.
withLockUntil(limit, op, arg, fault, r) ==
  /\ lock = NoLock
  /\ now < limit
  /\ fault = "none" \/ (faults < MaxFaults /\ r.res = "GitError")
  /\ faults' = IF fault = "none" THEN faults ELSE faults + 1
  /\ Apply(r)
  /\ Record(op, arg, r)
  /\ UNCHANGED <<linkVars, syncVars, vcard, lock, pc, req, out, started>>

withLock(op, arg, fault, r) == withLockUntil(MaxNow, op, arg, fault, r)

Create ==
  \E fields \in CreateInputs(Store), fault \in Faults :
    withLock("create", [id |-> fields.id, fields |-> fields], fault,
             create(Store, fields, now, fault))

Update ==
  \E id \in Ids, updates \in UpdateInputs, fault \in Faults :
    withLock("update", [id |-> id, updates |-> updates], fault,
             update(Store, id, updates, now, fault))

Delete ==
  \E id \in Ids, permanent \in BOOLEAN, fault \in Faults :
    withLock("delete", [id |-> id, permanent |-> permanent], fault,
             delete(Store, id, permanent, fault))

BulkCreate ==
  \E batch \in Batches, fault \in Faults :
    withLock("bulkCreate", [batch |-> batch], fault,
             bulkCreate(Store, batch, now, fault))

Rollback ==
  \E options \in RollbackInputs(Store) :
    withLock("rollback", options, "none", rollback(Store, options, now))

MergeAndArchive ==
  \E primaryId \in Ids, secs \in SUBSET Ids, n \in Names, keep \in BOOLEAN, fault \in Faults :
    LET old == get(Store, primaryId)
        merged == [fullName |-> n,
                   modified |-> IF keep /\ old.found THEN old.contact.modified ELSE now]
    IN withLock("mergeAndArchive",
                [primaryId |-> primaryId, secondaryIds |-> SetToSeq(secs),
                 merged |-> merged], fault,
                mergeAndArchive(Store, primaryId, SetToSeq(secs), merged, now, fault))

ReInit ==
  /\ lock = NoLock
  /\ now < MaxNow
  /\ Apply([st |-> init(Store)])
  /\ last' = NoLast
  /\ UNCHANGED <<linkVars, syncVars, vcard, lock, pc, req, out, started, faults>>

Next ==
  \/ Create
  \/ Update
  \/ Delete
  \/ BulkCreate
  \/ Rollback
  \/ MergeAndArchive
  \/ ReInit

Spec == Init /\ [][Next]_vars

\* ------------------------------------------------- rollback after failures
\* Longer runs of two handlers only: create of a new record, rollback of the
\* last commits.  A create that failed leaves files which make a later revert
\* fail in the middle of a rollback.
MaxRevertNow == 5

CreateNew ==
  \E i \in Ids, fault \in Faults :
    LET fields == [id |-> i, fullName |-> 1, metadata |-> Undefined]
    IN withLockUntil(MaxRevertNow, "create", [id |-> i, fields |-> fields], fault,
                     create(Store, fields, now, fault))

RollbackLastN ==
  \E c \in 1..(MaxCount + 1) :
    LET options == [mode |-> "last-n", count |-> c, commitHash |-> Undefined,
                    tagName |-> <<>>, dryRun |-> FALSE]
    IN withLockUntil(MaxRevertNow, "rollback", options, "none", rollback(Store, options, now))

RevertNext ==
  \/ CreateNew
  \/ RollbackLastN

RevertSpec == Init /\ [][RevertNext]_vars

\* ------------------------------------------------- concurrent callers
\* The operations the concurrent callers run, one input per handler.
LockRequests ==
  { [op |-> "create", id |-> 1],
    [op |-> "update", id |-> 1],
    [op |-> "delete", id |-> 1],
    [op |-> "bulkCreate", id |-> 2],
    [op |-> "rollback", id |-> 0],
    [op |-> "mergeAndArchive", id |-> 1] }

\* The function passed to withLock, for a request.
Run(r, S, ts) ==
  IF r.op = "create"
    THEN create(S, [id |-> r.id, fullName |-> 1, metadata |-> Undefined], ts, "none")
  ELSE IF r.op = "update" THEN update(S, r.id, [fullName |-> Undefined], ts, "none")
  ELSE IF r.op = "delete" THEN delete(S, r.id, FALSE, "none")
  ELSE IF r.op = "bulkCreate" THEN bulkCreate(S, <<[id |-> r.id, fullName |-> 1]>>, ts, "none")
  ELSE IF r.op = "rollback"
    THEN rollback(S, [mode |-> "last-n", count |-> 1, commitHash |-> Undefined,
                      tagName |-> <<>>, dryRun |-> FALSE], ts)
  ELSE mergeAndArchive(S, r.id, <<2>>, [fullName |-> 1, modified |-> ts], ts, "none")

MaxOps == 2
MaxStale == 1

\* (variant: the threshold itself already counts as stale)
IsStaleAtThreshold(l, t) == t - l.mtime >= StaleMs

\* acquireLock: Date.now() - stat.mtimeMs > 30000.
IsStale(l, t) == t - l.mtime > StaleMs

\* releaseLock: unlink of the lock file, errors ignored.
releaseLock(l) == NoLock

\* (variant: the release after fn(), without the finally)
releaseOnSuccess(l, res) == IF res = "ok" THEN releaseLock(l) ELSE l

\* withLock: the finally clause, whatever fn returned or threw.
withLock_finally(l, res) == releaseLock(l)

Step(p, name, res) == last' = [op |-> name, proc |-> p, res |-> res]

StoreVars == <<work, dirs, index, commits, tags, mergeLog>>

\* A caller invokes a mutating operation.
Start(p) ==
  /\ pc[p] \in {"idle", "done"}
  /\ started < MaxOps
  /\ \E r \in LockRequests : req' = [req EXCEPT ![p] = r]
  /\ started' = started + 1
  /\ pc' = [pc EXCEPT ![p] = "acquire"]
  /\ out' = [out EXCEPT ![p] = "none"]
  /\ Step(p, "start", "none")
  /\ UNCHANGED <<linkVars, syncVars, vcard, StoreVars, lock, now, faults>>

\* acquireLock, line 34: writeFile with flag wx.
TryLock(p) ==
  /\ pc[p] = "acquire"
  /\ IF lock = NoLock
       THEN /\ lock' = [owner |-> p, mtime |-> now]
            /\ pc' = [pc EXCEPT ![p] = "body"]
       ELSE /\ pc' = [pc EXCEPT ![p] = "stat"]
            /\ UNCHANGED lock
  /\ Step(p, "writeFile", IF lock = NoLock THEN "ok" ELSE "EEXIST")
  /\ UNCHANGED <<linkVars, syncVars, vcard, StoreVars, now, req, out, started, faults>>

\* acquireLock, lines 39-46: stat and the staleness test.
StatLock(p) ==
  /\ pc[p] = "stat"
  /\ IF lock # NoLock /\ IsStale(lock, now)
       THEN /\ pc' = [pc EXCEPT ![p] = "unlink"]
            /\ out' = out
            /\ Step(p, "stat", "stale")
       ELSE /\ pc' = [pc EXCEPT ![p] = "done"]
            /\ out' = [out EXCEPT ![p] = "StoreError: Store is locked"]
            /\ Step(p, "stat", "StoreError: Store is locked")
  /\ UNCHANGED <<linkVars, syncVars, vcard, StoreVars, lock, now, req, started, faults>>

\* acquireLock, line 41: unlink of the stale lock.
UnlinkStale(p) ==
  /\ pc[p] = "unlink"
  /\ IF lock # NoLock
       THEN /\ lock' = NoLock
            /\ pc' = [pc EXCEPT ![p] = "rewrite"]
            /\ out' = out
            /\ Step(p, "unlink", "ok")
       ELSE /\ lock' = lock
            /\ pc' = [pc EXCEPT ![p] = "done"]
            /\ out' = [out EXCEPT ![p] = "StoreError: Store is locked"]
            /\ Step(p, "unlink", "StoreError: Store is locked")
  /\ UNCHANGED <<linkVars, syncVars, vcard, StoreVars, now, req, started, faults>>

\* acquireLock, line 42: the second writeFile with flag wx.
Rewrite(p) ==
  /\ pc[p] = "rewrite"
  /\ IF lock = NoLock
       THEN /\ lock' = [owner |-> p, mtime |-> now]
            /\ pc' = [pc EXCEPT ![p] = "body"]
            /\ out' = out
            /\ Step(p, "rewrite", "ok")
       ELSE /\ lock' = lock
            /\ pc' = [pc EXCEPT ![p] = "done"]
            /\ out' = [out EXCEPT ![p] = "StoreError: Store is locked"]
            /\ Step(p, "rewrite", "StoreError: Store is locked")
  /\ UNCHANGED <<linkVars, syncVars, vcard, StoreVars, now, req, started, faults>>

\* withLock, line 59: fn() runs; its file writes and its commit are one step.
Body(p) ==
  /\ pc[p] = "body"
  /\ LET r == Run(req[p], Store, now)
     IN /\ work' = r.st.work
        /\ dirs' = r.st.dirs
        /\ index' = r.st.index
        /\ commits' = r.st.commits
        /\ tags' = r.st.tags
        /\ mergeLog' = r.st.mergeLog
        /\ out' = [out EXCEPT ![p] = r.res]
        /\ Step(p, req[p].op, r.res)
  /\ pc' = [pc EXCEPT ![p] = "release"]
  /\ UNCHANGED <<linkVars, syncVars, vcard, lock, now, req, started, faults>>

\* withLock, line 61: the finally.
Release(p) ==
  /\ pc[p] = "release"
  /\ lock' = withLock_finally(lock, out[p])
  /\ pc' = [pc EXCEPT ![p] = "done"]
  /\ Step(p, "releaseLock", out[p])
  /\ UNCHANGED <<linkVars, syncVars, vcard, StoreVars, now, req, out, started, faults>>

\* Time passes: up to the staleness threshold, or just beyond it.
Tick ==
  /\ \E d \in {StaleMs, StaleMs + 1} :
       /\ now + d <= MaxStale * (StaleMs + 1) + 1
       /\ now' = now + d
  /\ last' = [op |-> "tick", proc |-> 0, res |-> "none"]
  /\ UNCHANGED <<linkVars, syncVars, vcard, StoreVars, lock, pc, req, out, started, faults>>

LockNext ==
  \/ \E p \in Procs : Start(p)
  \/ \E p \in Procs : TryLock(p)
  \/ \E p \in Procs : StatLock(p)
  \/ \E p \in Procs : UnlinkStale(p)
  \/ \E p \in Procs : Rewrite(p)
  \/ \E p \in Procs : Body(p)
  \/ \E p \in Procs : Release(p)
  \/ Tick

LockSpec == Init /\ [][LockNext]_vars

\* ------------------------------------------------------------ vcard.ts
\* The text of a record file in detail, for the read-modify-write of update:
\* a text value is a sequence of characters, a record file is the values of
\* its FN, NOTE, CATEGORIES and REV lines (lines shorter than the folding
\* width).  "LF" is the newline character, NoLine a property with no line.
MaxStr == 2
MaxCats == 1
MaxCodecNow == 3

Chars == {"a", "n", "\\", ",", ";", "LF"}
Strs == SeqsUpTo(Chars, MaxStr)
NoLine == <<"no line">>
NoValue == <<"undefined">>

\* escapeVCardValue: backslash, then semicolon, comma and newline, each
\* replaced everywhere; no pass touches what an earlier one produced but the
\* first, whose backslashes the later ones do not escape again.
RECURSIVE escapeVCardValue(_)
escapeVCardValue(v) ==
  IF v = <<>> THEN <<>>
  ELSE (IF Head(v) = "\\" THEN <<"\\", "\\">>
        ELSE IF Head(v) = ";" THEN <<"\\", ";">>
        ELSE IF Head(v) = "," THEN <<"\\", ",">>
        ELSE IF Head(v) = "LF" THEN <<"\\", "n">>
        ELSE <<Head(v)>>) \o escapeVCardValue(Tail(v))

\* String.replace(/pat/g, rep) for a pattern of two characters.
RECURSIVE replaceAll(_, _, _)
replaceAll(v, pat, r) ==
  IF Len(v) < 2 THEN v
  ELSE IF SubSeq(v, 1, 2) = pat THEN r \o replaceAll(SubSeq(v, 3, Len(v)), pat, r)
  ELSE <<Head(v)>> \o replaceAll(Tail(v), pat, r)

\* unescapeVCardValue: four passes over the whole value, in this order.
unescapeVCardValue(v) ==
  replaceAll(replaceAll(replaceAll(replaceAll(v,
    <<"\\", "n">>, <<"LF">>),
    <<"\\", ",">>, <<",">>),
    <<"\\", ";">>, <<";">>),
    <<"\\", "\\">>, <<"\\">>)

\* String.split(','): the pieces between the commas, empty ones included.
RECURSIVE splitComma(_, _)
splitComma(v, piece) ==
  IF v = <<>> THEN <<piece>>
  ELSE IF Head(v) = "," THEN <<piece>> \o splitComma(Tail(v), <<>>)
  ELSE splitComma(Tail(v), Append(piece, Head(v)))

\* Array.join(',').
RECURSIVE joinComma(_)
joinComma(parts) ==
  IF parts = <<>> THEN <<>>
  ELSE IF Len(parts) = 1 THEN parts[1]
  ELSE parts[1] \o <<",">> \o joinComma(Tail(parts))

\* String.trim(): the newline and the blank are the white space of the texts.
IsSpace(c) == c \in {"LF", " "}
RECURSIVE trim(_)
trim(v) ==
  IF v = <<>> THEN v
  ELSE IF IsSpace(Head(v)) THEN trim(Tail(v))
  ELSE IF IsSpace(v[Len(v)]) THEN trim(SubSeq(v, 1, Len(v) - 1))
  ELSE v

\* contactToVCard: FN always, NOTE and CATEGORIES when not empty, REV.
contactToVCard(contact) ==
  [FN |-> escapeVCardValue(contact.fullName),
   NOTE |-> IF contact.notes = NoValue \/ contact.notes = <<>> THEN NoLine
            ELSE escapeVCardValue(contact.notes),
   CATEGORIES |-> IF Len(contact.categories) > 0
                    THEN joinComma([k \in 1..Len(contact.categories)
                                      |-> escapeVCardValue(contact.categories[k])])
                    ELSE NoLine,
   REV |-> contact.modified]

\* vcardToContact: a missing or empty NOTE is undefined, a missing or empty
\* CATEGORIES is the empty list; CATEGORIES is split before it is unescaped.
vcardToContact(card) ==
  [fullName |-> unescapeVCardValue(card.FN),
   notes |-> IF card.NOTE = NoLine \/ card.NOTE = <<>> THEN NoValue
             ELSE unescapeVCardValue(card.NOTE),
   categories |-> IF card.CATEGORIES = NoLine \/ card.CATEGORIES = <<>> THEN <<>>
                  ELSE LET parts == splitComma(card.CATEGORIES, <<>>)
                       IN [k \in 1..Len(parts) |-> unescapeVCardValue(parts[k])],
   modified |-> card.REV]

\* normalizeContact: the display name trimmed.
normalizeContact(contact) == [contact EXCEPT !.fullName = trim(contact.fullName)]

\* The file create writes for the fields a caller gives.
createCard(fields, ts) ==
  contactToVCard(normalizeContact(
    [fullName |-> fields.fullName, notes |-> fields.notes,
     categories |-> fields.categories, modified |-> ts]))

\* update, lines 101-158, on the text of the file: decode, apply the fields
\* the update has, stamp, normalize, encode.
updateCard(card, updates, ts) ==
  LET existing == vcardToContact(card)
      applied == [fullName |-> IF "fullName" \in updates.has THEN updates.fullName
                               ELSE existing.fullName,
                  notes |-> IF "notes" \in updates.has THEN updates.notes
                            ELSE existing.notes,
                  categories |-> IF "categories" \in updates.has THEN updates.categories
                                 ELSE existing.categories,
                  modified |-> ts]
  IN contactToVCard(normalizeContact(applied))

\* Records as callers create them: one field carries an arbitrary text, the
\* others a plain one.
Plain == <<"a">>
CardFields ==
  {[fullName |-> v, notes |-> NoValue, categories |-> <<>>] : v \in Strs \ {<<>>}}
    \cup {[fullName |-> Plain, notes |-> v, categories |-> <<>>] : v \in Strs}
    \cup {[fullName |-> Plain, notes |-> NoValue, categories |-> c]
            : c \in SeqsUpTo(Strs \ {<<>>}, MaxCats)}

\* Partial updates: no field, or one field with a new value.
CardUpdates ==
  {[has |-> {}, fullName |-> Plain, notes |-> NoValue, categories |-> <<>>]}
    \cup {[has |-> {"fullName"}, fullName |-> <<"n", "a">>, notes |-> NoValue, categories |-> <<>>]}
    \cup {[has |-> {"notes"}, fullName |-> Plain, notes |-> v, categories |-> <<>>]
            : v \in {<<>>, <<"n">>}}
    \cup {[has |-> {"categories"}, fullName |-> Plain, notes |-> NoValue, categories |-> c]
            : c \in {<<>>, <<Plain>>}}

\* A store that holds one record, as create wrote it at time 1.
CodecInit ==
  /\ work = InitTree
  /\ dirs = [d \in Dirs |-> TRUE]
  /\ index = InitTree
  /\ commits = <<[msg |-> "Initial commit", tree |-> InitTree]>>
  /\ tags = {}
  /\ mergeLog = <<>>
  /\ lock = NoLock
  /\ now = 2
  /\ pc = [p \in Procs |-> "idle"]
  /\ req = [p \in Procs |-> NoReq]
  /\ out = [p \in Procs |-> "none"]
  /\ started = 0
  /\ faults = 0
  /\ vcard \in {createCard(f, 1) : f \in CardFields}
  /\ NoLink
  /\ NoSync
  /\ last = NoLast

\* update(id, updates) on the record, seen at the level of the file's text.
UpdateCard ==
  /\ now <= MaxCodecNow
  /\ \E updates \in CardUpdates :
       /\ vcard' = updateCard(vcard, updates, now)
       /\ last' = [op |-> "update", res |-> "ok", has |-> updates.has]
  /\ now' = now + 1
  /\ UNCHANGED <<linkVars, syncVars, StoreVars, lock, pc, req, out, started, faults>>

CodecNext == UpdateCard

CodecSpec == CodecInit /\ [][CodecNext]_vars

\* ------------------------------------------------------------- merge.ts
\* mergeContacts on records in memory.  A text is a sequence of characters;
\* an entry of emails, phones, addresses, urls and categories is its value
\* (the key the union compares); organization is its name; created and
\* modified are times in milliseconds.
MaxMerge == 3
MaxEmails == 2

MergeIds == 1..MaxMerge
Providers == {"google", "carddav"}
Strategies == {"union", "keep-newest", "keep-oldest"}
OverrideFields == {"fullName", "emails", "phones", "addresses", "organization",
                   "birthday", "notes", "categories", "photo"}

\* JavaScript truthiness of an optional text, and of a remote id.
Truthy(v) == v # NoValue /\ v # <<>>
TruthyId(v) == v # ""

\* String.toLowerCase().
UpperCase == <<"A", "B", "O", "X">>
LowerCase == <<"a", "b", "o", "x">>
LowerOf(c) ==
  IF \E k \in 1..Len(UpperCase) : UpperCase[k] = c
    THEN LowerCase[CHOOSE k \in 1..Len(UpperCase) : UpperCase[k] = c]
    ELSE c
toLowerCase(v) == [k \in 1..Len(v) |-> LowerOf(v[k])]

\* The key of an entry in the Set the union keeps.
KeyOf(v, lower) == IF lower THEN toLowerCase(v) ELSE v

\* for (const x of other.xs) if (!set.has(key(x))) { primary.xs.push(x); set.add(key(x)) }
RECURSIVE unionBy(_, _, _)
unionBy(acc, xs, lower) ==
  IF xs = <<>> THEN acc
  ELSE IF \E j \in 1..Len(acc) : KeyOf(acc[j], lower) = KeyOf(Head(xs), lower)
         THEN unionBy(acc, Tail(xs), lower)
         ELSE unionBy(Append(acc, Head(xs)), Tail(xs), lower)

\* [primary.notes, other.notes].filter(Boolean).join('\n---\n')
NoteSeparator == <<"LF", "-", "-", "-", "LF">>
joinNotes(a, b) == IF Truthy(a) THEN a \o NoteSeparator \o b ELSE b

\* One pass of the loop of mergeUnion, lines 124-203.
unionStep(primary, other) ==
  LET longer == Len(other.fullName) > Len(primary.fullName)
  IN [id |-> primary.id,
      fullName |-> IF longer THEN other.fullName ELSE primary.fullName,
      name |-> IF longer THEN other.name ELSE primary.name,
      emails |-> unionBy(primary.emails, other.emails, TRUE),
      phones |-> unionBy(primary.phones, other.phones, FALSE),
      addresses |-> unionBy(primary.addresses, other.addresses, FALSE),
      organization |-> IF ~Truthy(primary.organization) /\ Truthy(other.organization)
                         THEN other.organization ELSE primary.organization,
      birthday |-> IF ~Truthy(primary.birthday) /\ Truthy(other.birthday)
                     THEN other.birthday ELSE primary.birthday,
      urls |-> unionBy(primary.urls, other.urls, FALSE),
      notes |-> IF Truthy(other.notes) /\ other.notes # primary.notes
                  THEN joinNotes(primary.notes, other.notes) ELSE primary.notes,
      categories |-> unionBy(primary.categories, other.categories, FALSE),
      photo |-> IF ~Truthy(primary.photo) /\ Truthy(other.photo)
                  THEN other.photo ELSE primary.photo,
      metadata |-> [primary.metadata EXCEPT
                      !.created = IF other.metadata.created < @
                                    THEN other.metadata.created ELSE @]]

RECURSIVE mergeUnionFrom(_, _)
mergeUnionFrom(primary, others) ==
  IF others = <<>> THEN primary
  ELSE mergeUnionFrom(unionStep(primary, Head(others)), Tail(others))

mergeUnion(cs) == mergeUnionFrom(cs[1], Tail(cs))

\* Array.sort is stable: the first record, in input order, of those with the
\* latest (earliest) modified time.
mergeKeepNewest(cs) ==
  cs[CHOOSE i \in 1..Len(cs) :
       /\ \A j \in 1..Len(cs) : cs[j].metadata.modified <= cs[i].metadata.modified
       /\ \A j \in 1..(i - 1) : cs[j].metadata.modified < cs[i].metadata.modified]

mergeKeepOldest(cs) ==
  cs[CHOOSE i \in 1..Len(cs) :
       /\ \A j \in 1..Len(cs) : cs[j].metadata.modified >= cs[i].metadata.modified
       /\ \A j \in 1..(i - 1) : cs[j].metadata.modified > cs[i].metadata.modified]

\* applyFieldOverride: the nine names of the switch; any other name does nothing.
applyFieldOverride(target, source, field) ==
  CASE field = "fullName" -> [target EXCEPT !.fullName = source.fullName, !.name = source.name]
    [] field = "emails" -> [target EXCEPT !.emails = source.emails]
    [] field = "phones" -> [target EXCEPT !.phones = source.phones]
    [] field = "addresses" -> [target EXCEPT !.addresses = source.addresses]
    [] field = "organization" -> [target EXCEPT !.organization = source.organization]
    [] field = "birthday" -> [target EXCEPT !.birthday = source.birthday]
    [] field = "notes" -> [target EXCEPT !.notes = source.notes]
    [] field = "categories" -> [target EXCEPT !.categories = source.categories]
    [] field = "photo" -> [target EXCEPT !.photo = source.photo]
    [] OTHER -> target

\* contacts.find(c => c.id === contactId): the position of the first such
\* record, 0 when there is none.
findById(cs, contactId) ==
  IF \E i \in 1..Len(cs) : cs[i].id = contactId
    THEN CHOOSE i \in 1..Len(cs) :
           cs[i].id = contactId /\ \A j \in 1..(i - 1) : cs[j].id # contactId
    ELSE 0

\* Lines 77-84: the entries of fieldOverrides in their order, as
\* <<field, contactId>>; st is [merged, fieldsFromEach].
RECURSIVE applyOverrides(_, _, _)
applyOverrides(st, entries, cs) ==
  IF entries = <<>> THEN st
  ELSE LET field == Head(entries)[1]
           contactId == Head(entries)[2]
           i == findById(cs, contactId)
       IN IF i = 0 THEN applyOverrides(st, Tail(entries), cs)
          ELSE applyOverrides(
                 [merged |-> applyFieldOverride(st.merged, cs[i], field),
                  fieldsFromEach |-> (field :> contactId) @@ st.fieldsFromEach],
                 Tail(entries), cs)

\* Lines 92-98: a provider is set from a record only while the merged record
\* has no (truthy) id for it.
mergeProviderIdsOf(acc, ids) ==
  [p \in DOMAIN acc \cup DOMAIN ids |->
     IF p \in DOMAIN acc /\ (TruthyId(acc[p]) \/ p \notin DOMAIN ids) THEN acc[p] ELSE ids[p]]

RECURSIVE mergeProviderIds(_, _)
mergeProviderIds(acc, cs) ==
  IF cs = <<>> THEN acc
  ELSE mergeProviderIds(mergeProviderIdsOf(acc, Head(cs).metadata.providerIds), Tail(cs))

NoMerge == [res |-> "Error: Need at least 2 contacts to merge"]

\* The strategy's record, before the overrides.
byStrategy(cs, strategy) ==
  CASE strategy = "keep-newest" -> mergeKeepNewest(cs)
    [] strategy = "keep-oldest" -> mergeKeepOldest(cs)
    [] OTHER -> mergeUnion(cs)

mergeContacts_keepStrategyId(cs, strategy, fieldOverrides, ts) ==
  IF Len(cs) < 2 THEN NoMerge
  ELSE LET st == applyOverrides([merged |-> byStrategy(cs, strategy), fieldsFromEach |-> <<>>],
                                fieldOverrides, cs)
           stamped == [st.merged EXCEPT !.metadata.modified = ts,
                                        !.metadata.archived = FALSE]
       IN [res |-> "ok",
           mergedContact |-> [stamped EXCEPT !.metadata.providerIds =
                                mergeProviderIds(stamped.metadata.providerIds, cs)],
           sourceContactIds |-> [i \in 1..Len(cs) |-> cs[i].id],
           fieldsFromEach |-> st.fieldsFromEach]

mergeContacts(cs, strategy, fieldOverrides, ts) ==
  IF Len(cs) < 2 THEN NoMerge
  ELSE LET st == applyOverrides([merged |-> byStrategy(cs, strategy), fieldsFromEach |-> <<>>],
                                fieldOverrides, cs)
           stamped == [st.merged EXCEPT !.id = cs[1].id,
                                        !.metadata.modified = ts,
                                        !.metadata.archived = FALSE]
       IN [res |-> "ok",
           mergedContact |-> [stamped EXCEPT !.metadata.providerIds =
                                mergeProviderIds(stamped.metadata.providerIds, cs)],
           sourceContactIds |-> [i \in 1..Len(cs) |-> cs[i].id],
           fieldsFromEach |-> st.fieldsFromEach]

\* The store and the callers at rest: what the calls below do not touch.
StoreIdle ==
  /\ work = InitTree
  /\ dirs = [d \in Dirs |-> TRUE]
  /\ index = InitTree
  /\ commits = <<[msg |-> "Initial commit", tree |-> InitTree]>>
  /\ tags = {}
  /\ mergeLog = <<>>
  /\ lock = NoLock
  /\ pc = [p \in Procs |-> "idle"]
  /\ req = [p \in Procs |-> NoReq]
  /\ out = [p \in Procs |-> "none"]
  /\ started = 0
  /\ faults = 0
  /\ vcard = NoCard

\* The records a merge is called with.  Record i has fixed phones, urls,
\* addresses, categories, organization, birthday, notes and photo, chosen so
\* that the records overlap in part; its emails, or its provider ids and
\* modified time, vary.  Record 2 is archived, record 3 has the shortest name.
BaseContact(i) ==
  [id |-> i,
   fullName |-> IF i = 1 THEN <<"a", "b">> ELSE IF i = 2 THEN <<"a", "b", "c">> ELSE <<"a">>,
   name |-> [givenName |-> IF i = 1 THEN <<"a", "b">> ELSE IF i = 2 THEN <<"a", "b", "c">> ELSE <<"a">>],
   emails |-> <<>>,
   phones |-> IF i = 2 THEN <<<<"1">>, <<"2">>>> ELSE <<<<"1">>>>,
   addresses |-> IF i = 2 THEN <<<<"s">>>> ELSE <<>>,
   organization |-> IF i = 2 THEN <<"o">> ELSE NoValue,
   birthday |-> IF i = 1 THEN NoValue ELSE <<"1", "9">>,
   urls |-> IF i = 1 THEN <<<<"u">>>> ELSE <<<<"v">>>>,
   notes |-> IF i = 1 THEN NoValue ELSE IF i = 2 THEN <<"n">> ELSE <<"m">>,
   categories |-> IF i = 1 THEN <<<<"c">>>> ELSE <<<<"c">>, <<"d">>>>,
   photo |-> IF i = 3 THEN <<"p">> ELSE NoValue,
   metadata |-> [created |-> IF i = 1 THEN 2 ELSE 1, modified |-> 1,
                 providerIds |-> <<>>, archived |-> (i = 2)]]

EmailValues == {<<"a">>, <<"A">>}
RemoteIds == {"r1", "r2"}
ProviderMaps == UNION {[P -> RemoteIds] : P \in SUBSET Providers}

EmailVariants(i) ==
  {[BaseContact(i) EXCEPT !.emails = e] : e \in SeqsUpTo(EmailValues, MaxEmails)}
ProviderVariants(i) ==
  {[BaseContact(i) EXCEPT !.metadata.providerIds = m, !.metadata.modified = t]
     : m \in ProviderMaps, t \in 1..2}
MergeVariants(i) == EmailVariants(i) \cup ProviderVariants(i)
FewVariants(i) ==
  {[BaseContact(i) EXCEPT !.emails = <<e>>, !.metadata.providerIds = ("google" :> r),
                          !.metadata.modified = IF r = "r1" THEN 1 ELSE 2]
     : e \in EmailValues, r \in RemoteIds}

\* One record (refused), two records with different ids or the same record
\* twice (the tool does not ask for distinct ids), three records and more,
\* record i at position i.
MergeLists ==
  {<<a>> : a \in FewVariants(1)}
    \cup {<<a, b>> : a \in MergeVariants(1), b \in MergeVariants(2)}
    \cup {<<a, a>> : a \in MergeVariants(1)}
    \cup UNION {{q \in [1..k -> UNION {FewVariants(i) : i \in MergeIds}] :
                   \A i \in 1..k : q[i].id = i} : k \in 3..MaxMerge}

\* fieldOverrides: none, one entry (a field of the switch or another field
\* of a record; a source of the call or an id that is not among them), two.
OverrideMaps ==
  {<<>>, <<<<"fullName", 2>>, <<"emails", 1>>>>}
    \cup {<<<<f, i>>>> : f \in OverrideFields \cup {"urls"}, i \in {2, MaxMerge + 1}}

MergeArgs == [op : {"mergeContacts"}, strategy : Strategies, fieldOverrides : OverrideMaps]

MergeInit ==
  /\ StoreIdle
  /\ NoSync
  /\ now = 3
  /\ contacts \in MergeLists
  /\ args \in MergeArgs
  /\ returned = NoResult
  /\ last = NoLast

\* mergeContacts(contacts, strategy, fieldOverrides) at time now.
MergeContacts ==
  /\ args.op = "mergeContacts"
  /\ returned = NoResult
  /\ returned' = mergeContacts(contacts, args.strategy, args.fieldOverrides, now)
  /\ last' = [op |-> "mergeContacts", res |-> "returned"]
  /\ now' = now + 1
  /\ UNCHANGED <<contacts, args, syncVars, vcard, StoreVars, lock, pc, req, out, started, faults>>

MergeNext == MergeContacts

MergeSpec == MergeInit /\ [][MergeNext]_vars

\* ------------------------------------------------------------- dedup.ts
\* findDuplicates on records in memory.  A record is what the engine reads
\* of it: id, display name, given and family name (NoValue when absent),
\* emails, phones, organization name.  Confidences and thresholds are in
\* hundredths (Math.round(score * 100) / 100), a similarity is the fraction
\* <<numerator, denominator>>.
MaxDedup == 3
DefaultThreshold == 60
DefaultLimit == 50
PhoneKeyDigits == 7
NationalDigits == 10

\* String.split(sep): the pieces between the separators, empty ones included.
RECURSIVE splitOn(_, _, _)
splitOn(v, sep, piece) ==
  IF v = <<>> THEN <<piece>>
  ELSE IF Head(v) = sep THEN <<piece>> \o splitOn(Tail(v), sep, <<>>)
  ELSE splitOn(Tail(v), sep, Append(piece, Head(v)))

\* normalizeEmail: email.trim().toLowerCase().
normalizeEmail(email) == toLowerCase(trim(email))

\* normalizePhone for the default country: a national number gets the
\* country code, a number in E.164 is kept, anything else is stripped of
\* its formatting characters (and kept as it is when nothing remains).
Digits == {"0", "1", "2", "3", "4", "5", "6", "7", "8", "9"}
RECURSIVE keepChars(_, _)
keepChars(v, S) ==
  IF v = <<>> THEN <<>>
  ELSE (IF Head(v) \in S THEN <<Head(v)>> ELSE <<>>) \o keepChars(Tail(v), S)

Formatting == {" ", "-", "(", ")", "."}
normalizePhone(raw) ==
  LET digits == keepChars(raw, Digits)
      stripped == keepChars(raw, {raw[k] : k \in 1..Len(raw)} \ Formatting)
  IN IF Len(digits) = NationalDigits /\ stripped = digits THEN <<"+", "1">> \o digits
     ELSE IF Len(digits) = NationalDigits + 1 /\ stripped = <<"+">> \o digits THEN stripped
     ELSE IF stripped # <<>> THEN stripped ELSE raw

\* levenshtein: dp[m][n] of the table, by its recurrence.
RECURSIVE levenshtein(_, _)
levenshtein(a, b) ==
  IF a = <<>> THEN Len(b)
  ELSE IF b = <<>> THEN Len(a)
  ELSE LET m == Len(a)
           n == Len(b)
           pa == SubSeq(a, 1, m - 1)
           pb == SubSeq(b, 1, n - 1)
       IN IF a[m] = b[n] THEN levenshtein(pa, pb)
          ELSE LET x == levenshtein(pa, b)
                   y == levenshtein(a, pb)
                   z == levenshtein(pa, pb)
                   xy == IF x < y THEN x ELSE y
               IN 1 + (IF xy < z THEN xy ELSE z)

\* name.givenName ?? '' and its like.
OrEmpty(v) == IF v = NoValue THEN <<>> ELSE v

\* computeNameSimilarity.
computeNameSimilarity(a, b) ==
  LET nameA == trim(toLowerCase(a.fullName))
      nameB == trim(toLowerCase(b.fullName))
      givenA == toLowerCase(OrEmpty(a.name.givenName))
      familyA == toLowerCase(OrEmpty(a.name.familyName))
      givenB == toLowerCase(OrEmpty(b.name.givenName))
      familyB == toLowerCase(OrEmpty(b.name.familyName))
      all == givenA # <<>> /\ familyA # <<>> /\ givenB # <<>> /\ familyB # <<>>
      maxLen == IF Len(nameA) > Len(nameB) THEN Len(nameA) ELSE Len(nameB)
  IN IF nameA = nameB THEN <<1, 1>>
     ELSE IF all /\ givenA = givenB /\ familyA = familyB THEN <<1, 1>>
     ELSE IF all /\ givenA = familyB /\ familyA = givenB THEN <<90, 100>>
     ELSE IF all /\ familyA = familyB /\ givenA[1] = givenB[1]
                 /\ (Len(givenA) = 1 \/ Len(givenB) = 1) THEN <<75, 100>>
     ELSE IF maxLen = 0 THEN <<1, 1>>
     ELSE <<maxLen - levenshtein(nameA, nameB), maxLen>>

\* sim >= pct / 100.
AtLeast(sim, pct) == sim[1] * 100 >= pct * sim[2]

Max(x, y) == IF x > y THEN x ELSE y
Min(x, y) == IF x < y THEN x ELSE y

\* The first element of as that bs has, in the order of as (the loops of
\* lines 57-69 and 74-86 stop at the first match); <<>> when there is none.
RECURSIVE firstShared(_, _)
firstShared(as, bs) ==
  IF as = <<>> THEN <<>>
  ELSE IF \E k \in 1..Len(bs) : bs[k] = Head(as) THEN <<Head(as)>>
  ELSE firstShared(Tail(as), bs)

compareContacts_nameLast(a, b) ==
  LET email == firstShared([k \in 1..Len(a.emails) |-> normalizeEmail(a.emails[k])],
                           [k \in 1..Len(b.emails) |-> normalizeEmail(b.emails[k])])
      phone == firstShared([k \in 1..Len(a.phones) |-> normalizePhone(a.phones[k])],
                           [k \in 1..Len(b.phones) |-> normalizePhone(b.phones[k])])
      s1 == IF email # <<>> THEN 95 ELSE 0
      s2 == IF phone # <<>> THEN Max(s1, 90) ELSE s1
      nameSim == computeNameSimilarity(a, b)
      s3 == IF AtLeast(nameSim, 85) THEN 70
            ELSE IF AtLeast(nameSim, 65) THEN 50
            ELSE s2
      org == /\ Truthy(a.organization) /\ Truthy(b.organization)
             /\ toLowerCase(a.organization) = toLowerCase(b.organization)
             /\ s3 > 0
  IN [confidence |-> IF org THEN Min(100, s3 + 15) ELSE s3,
      matchedFields |-> <<>>]

\* compareContacts: the confidence, and the matched fields in the order they
\* are pushed, each with valueA and valueB.
compareContacts(a, b) ==
  LET email == firstShared([k \in 1..Len(a.emails) |-> normalizeEmail(a.emails[k])],
                           [k \in 1..Len(b.emails) |-> normalizeEmail(b.emails[k])])
      phone == firstShared([k \in 1..Len(a.phones) |-> normalizePhone(a.phones[k])],
                           [k \in 1..Len(b.phones) |-> normalizePhone(b.phones[k])])
      s1 == IF email # <<>> THEN 95 ELSE 0
      s2 == IF phone # <<>> THEN Max(s1, 90) ELSE s1
      nameSim == computeNameSimilarity(a, b)
      s3 == IF AtLeast(nameSim, 85) THEN Max(s2, 70)
            ELSE IF AtLeast(nameSim, 65) THEN Max(s2, 50)
            ELSE s2
      org == /\ Truthy(a.organization) /\ Truthy(b.organization)
             /\ toLowerCase(a.organization) = toLowerCase(b.organization)
             /\ s3 > 0
  IN [confidence |-> IF org THEN Min(100, s3 + 15) ELSE s3,
      matchedFields |->
        (IF email # <<>> THEN <<[field |-> "email", valueA |-> email[1], valueB |-> email[1]]>>
         ELSE <<>>)
        \o (IF phone # <<>> THEN <<[field |-> "phone", valueA |-> phone[1], valueB |-> phone[1]]>>
            ELSE <<>>)
        \o (IF AtLeast(nameSim, 65)
              THEN <<[field |-> "name", valueA |-> a.fullName, valueB |-> b.fullName]>>
            ELSE <<>>)
        \o (IF org THEN <<[field |-> "organization", valueA |-> a.organization,
                           valueB |-> b.organization]>>
            ELSE <<>>)]

\* (text)[0]?.toLowerCase() ?? ''.
Initial(v) == IF v = <<>> THEN <<>> ELSE <<LowerOf(v[1])>>

\* Set insertion order: a key is added once, at its first add.
RECURSIVE addEach(_, _)
addEach(keys, more) ==
  IF more = <<>> THEN keys
  ELSE IF \E k \in 1..Len(keys) : keys[k] = Head(more) THEN addEach(keys, Tail(more))
  ELSE addEach(Append(keys, Head(more)), Tail(more))

\* buildBlocks, lines 184-203: the blocking keys of one record, in the order
\* they are added.
blockKeys(contact) ==
  LET pieces == splitOn(contact.fullName, " ", <<>>)
      g == Initial(IF contact.name.givenName # NoValue THEN contact.name.givenName
                   ELSE pieces[1])
      f == Initial(IF contact.name.familyName # NoValue THEN contact.name.familyName
                   ELSE pieces[Len(pieces)])
      nameKey == IF g # <<>> \/ f # <<>> THEN <<<<"name", g \o f>>>> ELSE <<>>
      domainOf(e) == LET parts == splitOn(e, "@", <<>>)
                     IN IF Len(parts) >= 2 THEN toLowerCase(parts[2]) ELSE <<>>
      domains == [k \in 1..Len(contact.emails) |-> <<"domain", domainOf(contact.emails[k])>>]
      digitsOf(p) == keepChars(p, Digits)
      lastDigits(p) == SubSeq(digitsOf(p), Len(digitsOf(p)) - PhoneKeyDigits + 1, Len(digitsOf(p)))
      phones == [k \in 1..Len(contact.phones) |->
                   IF Len(digitsOf(contact.phones[k])) >= PhoneKeyDigits
                     THEN <<"phone", lastDigits(contact.phones[k])>>
                     ELSE <<"phone", <<>>>>]
      real(ks) == SelectSeq(ks, LAMBDA k : k[2] # <<>>)
  IN addEach(addEach(nameKey, real(domains)), real(phones))

\* buildBlocks: the keys of the Map in insertion order, and the block of a
\* key: the records that have it, in input order.
RECURSIVE blockOrder(_, _)
blockOrder(keys, cs) ==
  IF cs = <<>> THEN keys
  ELSE blockOrder(addEach(keys, blockKeys(Head(cs))), Tail(cs))

blockOf(key, cs) ==
  SelectSeq(cs, LAMBDA c : \E k \in 1..Len(blockKeys(c)) : blockKeys(c)[k] = key)

\* Lines 24-42 for one block: the pairs i < j in order; st is [seen, candidates].
RECURSIVE scanBlock_noSeen(_, _, _, _, _)
scanBlock_noSeen(st, block, i, j, threshold) ==
  IF i > Len(block) THEN st
  ELSE IF j > Len(block) THEN scanBlock_noSeen(st, block, i + 1, i + 2, threshold)
  ELSE LET a == block[i]
           b == block[j]
           r == compareContacts(a, b)
       IN scanBlock_noSeen(
            [seen |-> st.seen \cup {{a.id, b.id}},
             candidates |-> IF r.confidence >= threshold
                              THEN Append(st.candidates,
                                          [contactA |-> a.id, contactB |-> b.id,
                                           confidence |-> r.confidence,
                                           matchedFields |-> r.matchedFields])
                              ELSE st.candidates],
            block, i, j + 1, threshold)

RECURSIVE scanBlock(_, _, _, _, _)
scanBlock(st, block, i, j, threshold) ==
  IF i > Len(block) THEN st
  ELSE IF j > Len(block) THEN scanBlock(st, block, i + 1, i + 2, threshold)
  ELSE LET a == block[i]
           b == block[j]
           pairKey == {a.id, b.id}
           r == compareContacts(a, b)
       IN IF pairKey \in st.seen THEN scanBlock(st, block, i, j + 1, threshold)
          ELSE scanBlock(
                 [seen |-> st.seen \cup {pairKey},
                  candidates |-> IF r.confidence >= threshold
                                   THEN Append(st.candidates,
                                               [contactA |-> a.id, contactB |-> b.id,
                                                confidence |-> r.confidence,
                                                matchedFields |-> r.matchedFields])
                                   ELSE st.candidates],
                 block, i, j + 1, threshold)

RECURSIVE scanBlocks(_, _, _, _)
scanBlocks(st, keys, cs, threshold) ==
  IF keys = <<>> THEN st
  ELSE scanBlocks(scanBlock(st, blockOf(Head(keys), cs), 1, 2, threshold),
                  Tail(keys), cs, threshold)

\* candidates.sort((a, b) => b.confidence - a.confidence): stable, highest first.
RECURSIVE insertByConfidence(_, _)
insertByConfidence(sorted, c) ==
  IF sorted = <<>> THEN <<c>>
  ELSE IF Head(sorted).confidence >= c.confidence
         THEN <<Head(sorted)>> \o insertByConfidence(Tail(sorted), c)
         ELSE <<c>> \o sorted

RECURSIVE sortByConfidence(_, _)
sortByConfidence(sorted, rest) ==
  IF rest = <<>> THEN sorted
  ELSE sortByConfidence(insertByConfidence(sorted, Head(rest)), Tail(rest))

\* findDuplicates(contacts, {threshold, limit}).
findDuplicates(cs, threshold, limit) ==
  LET st == scanBlocks([seen |-> {}, candidates |-> <<>>], blockOrder(<<>>, cs), cs, threshold)
      sorted == sortByConfidence(<<>>, st.candidates)
  IN SubSeq(sorted, 1, Min(limit, Len(sorted)))

\* parseName: the display name trimmed and split at white space; one part
\* is the given name, two are given and family name, more have a middle name.
parseName(fullName) ==
  LET parts == SelectSeq(splitOn(trim(fullName), " ", <<>>), LAMBDA p : p # <<>>)
  IN IF parts = <<>> THEN [givenName |-> NoValue, familyName |-> NoValue]
     ELSE IF Len(parts) = 1 THEN [givenName |-> parts[1], familyName |-> NoValue]
     ELSE [givenName |-> parts[1], familyName |-> parts[Len(parts)]]

\* The names of the records of a call: display name, given and family name
\* as the caller gave them; parsed stands for a record made by createContact
\* from the display name alone, bare for one with no structured name.
Jo == <<"j", "o">>
Sm == <<"s", "m">>
So == <<"s", "o">>
JoSm == <<"j", "o", " ", "s", "m">>
SmJo == <<"s", "m", " ", "j", "o">>
SmCommaJo == <<"s", "m", ",", " ", "j", "o">>
JSm == <<"j", " ", "s", "m">>
SoSm == <<"s", "o", " ", "s", "m">>
SmSo == <<"s", "m", " ", "s", "o">>
BoBu == <<"b", "o", " ", "b", "u">>

NoName == [givenName |-> NoValue, familyName |-> NoValue]
DedupNames ==
  {[fullName |-> JoSm, name |-> [givenName |-> Jo, familyName |-> Sm]],
   [fullName |-> SmJo, name |-> [givenName |-> Sm, familyName |-> Jo]],
   [fullName |-> SmCommaJo, name |-> parseName(SmCommaJo)],
   [fullName |-> JoSm, name |-> NoName],
   [fullName |-> JSm, name |-> [givenName |-> <<"j">>, familyName |-> Sm]],
   [fullName |-> SoSm, name |-> [givenName |-> So, familyName |-> Sm]],
   [fullName |-> SmSo, name |-> [givenName |-> Sm, familyName |-> So]],
   [fullName |-> BoBu, name |-> parseName(BoBu)]}
FocusNames ==
  {[fullName |-> JoSm, name |-> parseName(JoSm)],
   [fullName |-> SoSm, name |-> parseName(SoSm)]}

AtX == <<"a", "@", "x">>
DedupEmails == {<<>>, <<AtX>>, <<<<"A", "@", "X">>>>, <<<<"b", "@", "x">>>>, <<<<"a">>>>}
FocusEmails == {<<>>, <<AtX>>, <<<<"a">>>>}

Phone == <<"5", "5", "5", "1", "2", "3", "4", "5", "6", "7">>
DedupPhones == {<<>>, <<Phone>>}
FocusPhones == {<<>>, <<<<"+", "1">> \o Phone>>}

DedupOrgs == {NoValue, <<"o">>, <<"O">>}
FocusOrgs == {<<"o">>}

DedupContact(i, n, e, p, o) ==
  [id |-> i, fullName |-> n.fullName, name |-> n.name, emails |-> e, phones |-> p,
   organization |-> o]

FocusContacts(i) ==
  {DedupContact(i, n, e, p, o) : n \in FocusNames, e \in FocusEmails, p \in FocusPhones,
                                 o \in FocusOrgs}
AnyContacts(i) ==
  {DedupContact(i, n, e, p, o) : n \in DedupNames, e \in DedupEmails, p \in DedupPhones,
                                 o \in DedupOrgs}
FewContacts(i) ==
  {DedupContact(i, n, e, <<>>, NoValue)
     : n \in {[fullName |-> JoSm, name |-> parseName(JoSm)],
              [fullName |-> BoBu, name |-> parseName(BoBu)]},
       e \in {<<>>, <<AtX>>}}

\* The records of a call, as store.list gives them: ids all different.  One
\* record, two records, three records and more (record i at position i).
DedupLists ==
  {<<a>> : a \in FewContacts(1)}
    \cup {<<a, b>> : a \in FocusContacts(1), b \in AnyContacts(2)}
    \cup UNION {{q \in [1..k -> UNION {FewContacts(i) : i \in 1..MaxDedup}] :
                   \A i \in 1..k : q[i].id = i} : k \in 3..MaxDedup}

Thresholds == {0, 50, DefaultThreshold, 95}
Limits == {1, DefaultLimit}
DedupArgs == [op : {"findDuplicates"}, threshold : Thresholds, limit : Limits]

DedupInit ==
  /\ StoreIdle
  /\ NoSync
  /\ now = 1
  /\ contacts \in DedupLists
  /\ args \in DedupArgs
  /\ Len(contacts) <= 2 => args.limit = DefaultLimit
  /\ returned = NoResult
  /\ last = NoLast

\* findDuplicates(contacts, {threshold, limit}).
FindDuplicates ==
  /\ args.op = "findDuplicates"
  /\ returned = NoResult
  /\ returned' = [res |-> "ok",
                  candidates |-> findDuplicates(contacts, args.threshold, args.limit)]
  /\ last' = [op |-> "findDuplicates", res |-> "returned"]
  /\ UNCHANGED <<contacts, args, syncVars, vcard, StoreVars, lock, now, pc, req, out,
                 started, faults>>

DedupNext == FindDuplicates

DedupSpec == DedupInit /\ [][DedupNext]_vars

\* ------------------------------------------- vcard.ts, every line of text
\* The whole text part of a record file: FN, N, ADR, ORG, TITLE, NOTE and
\* CATEGORIES.  A contact has the five parts of its structured name, an
\* organization or none, a list of addresses of five parts each, and the
\* fields above; an absent part is NoValue.
NameParts == <<"familyName", "givenName", "middleName", "prefix", "suffix">>
AddressParts == <<"street", "city", "state", "postalCode", "country">>
NoOrganization == [undefined |-> TRUE]

\* Array.join(sep).
RECURSIVE joinWith(_, _)
joinWith(parts, sep) ==
  IF parts = <<>> THEN <<>>
  ELSE IF Len(parts) = 1 THEN parts[1]
  ELSE parts[1] \o <<sep>> \o joinWith(Tail(parts), sep)

\* N:family;given;middle;prefix;suffix, each part escaped.
nLine(n) ==
  joinWith([k \in 1..Len(NameParts) |-> escapeVCardValue(OrEmpty(n[NameParts[k]]))], ";")

\* ADR:;;street;city;state;postal;country, each part escaped.
adrLine(addr) ==
  joinWith(<<<<>>, <<>>>> \o
           [k \in 1..Len(AddressParts) |-> escapeVCardValue(OrEmpty(addr[AddressParts[k]]))],
           ";")

\* ORG:name[;department] when the organization has a name.
orgLine(org) ==
  IF org # NoOrganization /\ Truthy(org.name)
    THEN escapeVCardValue(org.name)
           \o (IF Truthy(org.department) THEN <<";">> \o escapeVCardValue(org.department)
               ELSE <<>>)
    ELSE NoLine

\* TITLE:title when the organization has a title.
titleLine(org) ==
  IF org # NoOrganization /\ Truthy(org.title) THEN escapeVCardValue(org.title) ELSE NoLine

\* contactToVCard, lines 7-84: the values of the text lines.
contactToVCardLines(contact) ==
  LET simple == contactToVCard(contact)
  IN [FN |-> simple.FN,
      N |-> nLine(contact.name),
      ADR |-> [k \in 1..Len(contact.addresses) |-> adrLine(contact.addresses[k])],
      ORG |-> orgLine(contact.organization),
      TITLE |-> titleLine(contact.organization),
      NOTE |-> simple.NOTE,
      CATEGORIES |-> simple.CATEGORIES,
      REV |-> simple.REV]

\* value.split(';').map(unescapeVCardValue): the value is split first.
splitParts(value) ==
  LET parts == splitOn(value, ";", <<>>)
  IN [k \in 1..Len(parts) |-> unescapeVCardValue(parts[k])]

\* parts[k] || undefined.
partOr(parts, k) == IF k <= Len(parts) /\ parts[k] # <<>> THEN parts[k] ELSE NoValue

\* getFirstValue(props, name) is a line with a value.
HasValue(line) == line # NoLine /\ line # <<>>

\* hasNameFields(fields.name) ? fields.name : parseName(fields.fullName).
nameOf(name, fullName) ==
  IF \E k \in 1..Len(NameParts) : Truthy(name[NameParts[k]]) THEN name
  ELSE LET words == SelectSeq(splitOn(trim(fullName), " ", <<>>), LAMBDA p : p # <<>>)
           parsed == parseName(fullName)
       IN [familyName |-> parsed.familyName,
           givenName |-> parsed.givenName,
           middleName |-> IF Len(words) > 2
                            THEN joinWith(SubSeq(words, 2, Len(words) - 1), " ")
                            ELSE NoValue,
           prefix |-> NoValue,
           suffix |-> NoValue]

\* vcardToContact, lines 112-214: the contact of the text lines.
vcardLinesToContact(card) ==
  LET simple == vcardToContact([FN |-> card.FN, NOTE |-> card.NOTE,
                                CATEGORIES |-> card.CATEGORIES, REV |-> card.REV])
      nParts == splitParts(IF card.N = NoLine THEN <<";", ";", ";", ";">> ELSE card.N)
      name == [familyName |-> partOr(nParts, 1),
               givenName |-> partOr(nParts, 2),
               middleName |-> partOr(nParts, 3),
               prefix |-> partOr(nParts, 4),
               suffix |-> partOr(nParts, 5)]
      address(value) ==
        LET parts == splitParts(value)
        IN [street |-> partOr(parts, 3),
            city |-> partOr(parts, 4),
            state |-> partOr(parts, 5),
            postalCode |-> partOr(parts, 6),
            country |-> partOr(parts, 7)]
      orgParts == splitOn(card.ORG, ";", <<>>)
      organization ==
        IF HasValue(card.ORG) \/ HasValue(card.TITLE)
          THEN [name |-> IF HasValue(card.ORG) THEN unescapeVCardValue(orgParts[1])
                         ELSE NoValue,
                department |-> IF HasValue(card.ORG) /\ Len(orgParts) > 1
                                 THEN unescapeVCardValue(orgParts[2])
                                 ELSE NoValue,
                title |-> IF HasValue(card.TITLE) THEN unescapeVCardValue(card.TITLE)
                          ELSE NoValue]
          ELSE NoOrganization
  IN [fullName |-> simple.fullName,
      name |-> nameOf(name, simple.fullName),
      addresses |-> [k \in 1..Len(card.ADR) |-> address(card.ADR[k])],
      organization |-> organization,
      notes |-> simple.notes,
      categories |-> simple.categories,
      modified |-> simple.modified]

\* Contacts as createContact builds them: one text field carries an arbitrary
\* text that is not empty, the others a plain one or none.
Texts == Strs \ {<<>>}
NoParts(parts) == [p \in {parts[k] : k \in 1..Len(parts)} |-> NoValue]
PlainContact ==
  [fullName |-> Plain,
   name |-> [NoParts(NameParts) EXCEPT !.givenName = Plain],
   addresses |-> <<>>,
   organization |-> NoOrganization,
   notes |-> NoValue,
   categories |-> <<>>,
   modified |-> 1]
PlainOrganization == [name |-> Plain, department |-> NoValue, title |-> NoValue]
PlainAddress == [NoParts(AddressParts) EXCEPT !.street = Plain]
TextContacts ==
  UNION {
    {[PlainContact EXCEPT !.fullName = v],
     [PlainContact EXCEPT !.name.familyName = v],
     [PlainContact EXCEPT !.name.givenName = v],
     [PlainContact EXCEPT !.name.suffix = v],
     [PlainContact EXCEPT !.organization = [PlainOrganization EXCEPT !.name = v]],
     [PlainContact EXCEPT !.organization = [PlainOrganization EXCEPT !.department = v]],
     [PlainContact EXCEPT !.organization = [PlainOrganization EXCEPT !.title = v]],
     [PlainContact EXCEPT !.addresses = <<[PlainAddress EXCEPT !.street = v]>>],
     [PlainContact EXCEPT !.addresses = <<[PlainAddress EXCEPT !.country = v], PlainAddress>>],
     [PlainContact EXCEPT !.notes = v],
     [PlainContact EXCEPT !.categories = <<v>>],
     [PlainContact EXCEPT !.categories = <<Plain, v>>]} : v \in Texts}

RoundTripInit ==
  /\ StoreIdle
  /\ NoSync
  /\ now = 1
  /\ contacts \in {<<c>> : c \in TextContacts}
  /\ args = [op |-> "roundTrip"]
  /\ returned = NoResult
  /\ last = NoLast

\* contactToVCard(contact).
ContactToVCard ==
  /\ args.op = "roundTrip"
  /\ last.op = "init"
  /\ vcard' = contactToVCardLines(contacts[1])
  /\ last' = [op |-> "contactToVCard", res |-> "returned"]
  /\ UNCHANGED <<linkVars, syncVars, StoreVars, lock, now, pc, req, out, started, faults>>

\* vcardToContact(vcard) of the text just written.
VCardToContact ==
  /\ args.op = "roundTrip"
  /\ last.op = "contactToVCard"
  /\ returned' = [res |-> "ok", contact |-> vcardLinesToContact(vcard)]
  /\ last' = [op |-> "vcardToContact", res |-> "returned"]
  /\ UNCHANGED <<contacts, args, syncVars, vcard, StoreVars, lock, now, pc, req, out,
                 started, faults>>

RoundTripNext == ContactToVCard \/ VCardToContact

RoundTripSpec == RoundTripInit /\ [][RoundTripNext]_vars

\* -------------------------------------------------------- sync/engine.ts
\* One provider, pushed to.  providerIds[i] is what the file of record i
\* holds under the provider's name (NoRemoteId: nothing); the provider keeps
\* the records it was given in the order it created them, the remote id of a
\* record being its position; from is the local record a remote one was
\* made of.
MaxSyncNow == 6
NoRemoteId == 0

\* provider.pushContact(local): a new remote record, its id returned.
pushContact(rem, id, local) ==
  [remote |-> Append(rem, [from |-> id, modified |-> local.modified]),
   newRemoteId |-> Len(rem) + 1]

\* provider.updateContact(remoteId, local): the remote record replaced.
updateContact(rem, remoteId, id, local) ==
  [rem EXCEPT ![remoteId] = [from |-> id, modified |-> local.modified]]

\* What update(id, updates) writes as metadata.providerIds: those of the
\* record it read; it has no case for updates.metadata.
update_providerIds(stored, id, updates) == stored

\* push, lines 125-166: the records of store.list(false) one by one.  st is
\* the store, the provider ids in the files, the provider's records and the
\* count of pushed records.
RECURSIVE pushEach(_, _, _, _, _)
pushEach(st, locals, lastSyncTime, dryRun, ts) ==
  IF locals = <<>> THEN st
  ELSE
    LET id == Head(locals)
        local == get(st.S, id).contact
        remoteId == st.providerIds[id]
        counted == [st EXCEPT !.pushed = st.pushed + 1]
        after ==
          IF local.modified <= lastSyncTime THEN st
          ELSE IF remoteId = NoRemoteId
            THEN IF dryRun THEN counted
                 ELSE LET p == pushContact(st.remote, id, local)
                          linked == [st.providerIds EXCEPT ![id] = p.newRemoteId]
                          updates == [fullName |-> Undefined, metadata |-> linked[id]]
                          u == update(st.S, id, updates, ts, "none")
                      IN IF u.res # "ok" THEN [st EXCEPT !.remote = p.remote]
                         ELSE [S |-> u.st,
                               providerIds |-> update_providerIds(st.providerIds, id, updates),
                               remote |-> p.remote,
                               pushed |-> st.pushed + 1]
          ELSE IF dryRun THEN counted
               ELSE [counted EXCEPT !.remote = updateContact(st.remote, remoteId, id, local)]
    IN pushEach(after, Tail(locals), lastSyncTime, dryRun, ts)

\* sync(provider, {direction: 'push', dryRun}): tag, push, set the last sync
\* time unless it is a dry run, tag.  A tag that fails ends the sync.
sync(S, ids, rem, since, dryRun, ts) ==
  LET unchanged == [S |-> S, providerIds |-> ids, remote |-> rem, pushed |-> 0,
                    lastSync |-> since, res |-> "error"]
      t1 == git_tag(S, <<"pre-sync", ts>>)
      p == pushEach([S |-> t1.st, providerIds |-> ids, remote |-> rem, pushed |-> 0],
                    SetToSeq(list(t1.st, FALSE)), since, dryRun, ts)
      t2 == git_tag(p.S, <<"post-sync", ts>>)
  IN IF ~t1.ok THEN unchanged
     ELSE [S |-> t2.st, providerIds |-> p.providerIds, remote |-> p.remote,
           pushed |-> p.pushed,
           lastSync |-> IF dryRun THEN since ELSE ts,
           res |-> IF t2.ok THEN "ok" ELSE "error"]

\* The store after init, and after a first sync that pulled record 1 from
\* the provider: tagged, created with the remote record's metadata, tagged.
EmptyStore ==
  [work |-> InitTree, dirs |-> [d \in Dirs |-> TRUE], index |-> InitTree,
   commits |-> <<[msg |-> "Initial commit", tree |-> InitTree]>>, tags |-> {},
   mergeLog |-> <<>>]
PulledStore ==
  LET t1 == git_tag(EmptyStore, <<"pre-sync", 1>>).st
      c == create(t1, [id |-> 1, fullName |-> 1, metadata |-> 1], 1, "none").st
  IN git_tag(c, <<"post-sync", 1>>).st

\* An empty store and a provider that holds nothing and was never synced,
\* or a store whose record 1 was pulled from the provider at time 1.
SyncInit ==
  /\ \E pulled \in BOOLEAN :
       LET S == IF pulled THEN PulledStore ELSE EmptyStore
       IN /\ work = S.work
          /\ dirs = S.dirs
          /\ index = S.index
          /\ commits = S.commits
          /\ tags = S.tags
          /\ mergeLog = S.mergeLog
          /\ providerIds = [i \in Ids |-> IF pulled /\ i = 1 THEN 1 ELSE NoRemoteId]
          /\ remote = IF pulled THEN <<[from |-> 1, modified |-> 1]>> ELSE <<>>
          /\ lastSync = IF pulled THEN 1 ELSE 0
          /\ now = IF pulled THEN 2 ELSE 1
  /\ lock = NoLock
  /\ pc = [p \in Procs |-> "idle"]
  /\ req = [p \in Procs |-> NoReq]
  /\ out = [p \in Procs |-> "none"]
  /\ started = 0
  /\ faults = 0
  /\ vcard = NoCard
  /\ NoLink
  /\ last = NoLast

\* create of a record the store does not hold: its file has no provider id.
CreateLocal ==
  \E i \in Ids :
    LET fields == [id |-> i, fullName |-> 1, metadata |-> Undefined]
    IN /\ ~get(Store, i).found
       /\ withLockUntil(MaxSyncNow, "create", [id |-> i, fields |-> fields], "none",
                        create(Store, fields, now, "none"))

\* update of a record by its user.
EditLocal ==
  \E i \in Ids :
    LET updates == [fullName |-> 1]
    IN /\ get(Store, i).found
       /\ withLockUntil(MaxSyncNow, "update", [id |-> i, updates |-> updates], "none",
                        update(Store, i, updates, now, "none"))

\* sync_provider with direction push.
SyncPush ==
  /\ lock = NoLock
  /\ now < MaxSyncNow
  /\ \E dryRun \in BOOLEAN :
       LET r == sync(Store, providerIds, remote, lastSync, dryRun, now)
       IN /\ work' = r.S.work
          /\ dirs' = r.S.dirs
          /\ index' = r.S.index
          /\ commits' = r.S.commits
          /\ tags' = r.S.tags
          /\ mergeLog' = r.S.mergeLog
          /\ providerIds' = r.providerIds
          /\ remote' = r.remote
          /\ lastSync' = r.lastSync
          /\ last' = [op |-> "sync", res |-> r.res, dryRun |-> dryRun, pushed |-> r.pushed,
                      created |-> {remote'[k].from : k \in (Len(remote) + 1)..Len(remote')}]
  /\ now' = now + 1
  /\ UNCHANGED <<linkVars, vcard, lock, pc, req, out, started, faults>>

SyncNext ==
  \/ CreateLocal
  \/ EditLocal
  \/ SyncPush

SyncSpec == SyncInit /\ [][SyncNext]_vars

\* ================================================================ claims
MutOps == {"create", "update", "delete", "bulkCreate", "rollback", "mergeAndArchive"}

InLockedSection(p) == pc[p] \in {"body", "release"}

\* C1: at most one operation is inside its locked section at any time, also
\* when a lock older than 30 seconds is force-cleared by the next acquirer.
C1_MutualExclusion == Cardinality({p \in Procs : InLockedSection(p)}) <= 1

\* C2: once an operation that took the lock has returned or thrown, the lock
\* it took is gone (no lock file names it as owner), on success and on failure.
C2_LockReleased == \A p \in Procs : pc[p] = "done" => lock.owner # p

\* C2 witness: an operation threw inside the locked section (record absent),
\* and a mutation started after it holds the lock.
C2_Witness ==
  \E p, q \in Procs :
    /\ p # q
    /\ pc[p] = "done" /\ out[p] = "ContactNotFoundError"
    /\ pc[q] = "body" /\ lock.owner = q

\* C3: an operation that finds the lock present and at most 30 seconds old
\* fails at once with "Store is locked", without retrying, and changes neither
\* the files, the index, the commits, the tags nor the lock.
C3_LockedFailsFast ==
  [][\A p \in Procs :
       /\ (pc[p] = "acquire" /\ pc'[p] # "acquire" /\ lock # NoLock)
            => (pc'[p] = "stat" /\ UNCHANGED <<StoreVars, lock>>)
       /\ (pc[p] = "stat" /\ pc'[p] # "stat" /\ lock # NoLock /\ now - lock.mtime <= StaleMs)
            => /\ pc'[p] = "done"
               /\ out'[p] = "StoreError: Store is locked"
               /\ UNCHANGED <<StoreVars, lock>>]_vars

\* C3 witness: a caller was rejected by a lock exactly 30 seconds old, which
\* is still in place and whose holder is still inside its locked section.
C3_Witness ==
  \E p, q \in Procs :
    /\ pc[p] = "done" /\ out[p] = "StoreError: Store is locked"
    /\ last.op = "stat" /\ last.proc = p
    /\ lock.owner = q /\ InLockedSection(q)
    /\ now - lock.mtime = StaleMs

Active(i) == work.files[contactPath(i)] # NoFile
Archived(i) == work.files[archivePath(i)] # NoFile

\* C4: no record id has a file in both the active and the archived area.
C4_ActiveXorArchived == \A i \in Ids : ~(Active(i) /\ Archived(i))

\* C5: when a mutating operation fails after it has changed files, the working
\* tree and the index equal the last commit when it returns.
C5_FailureRestoresHead ==
  (last.op \in MutOps /\ last.res # "ok" /\ last.wrote)
    => (work.files = HeadTree(Store).files /\ index = HeadTree(Store))

ExpectedOperation(op) ==
  IF op = "mergeAndArchive" THEN "merge" ELSE op

\* C6: every successful create, update, delete and mergeAndArchive adds exactly
\* one commit, and getHistory classifies the newest entry as create, update,
\* delete and merge respectively.
C6_OneCommitPerMutation ==
  (last.op \in {"create", "update", "delete", "mergeAndArchive"} /\ last.res = "ok")
    => /\ Len(commits) = last.pre + 1
       /\ getHistory(Store, 1)[1].operation = ExpectedOperation(last.op)

C8_AppendOnly ==
  [][/\ Len(commits') >= Len(commits)
     /\ SubSeq(commits', 1, Len(commits)) = commits]_vars

\* C8 witness: a rollback that reverted a commit has run, after an earlier rollback.
C8_Witness ==
  /\ last.op = "rollback" /\ last.n >= 1
  /\ \E i \in 1..last.pre : commits[i].msg = "Revert"

\* C9: every rollback that has the lock tags the head it found with
\* pre-rollback-<ts>, in every mode and on a dry run; a dry run adds no commit,
\* changes no file and reports 0 reverted commits.
C9_SafetyTag ==
  [][(last'.op = "rollback")
       => /\ [name |-> <<"pre-rollback", now>>, commit |-> Len(commits)] \in tags'
          /\ last'.arg.dryRun
               => /\ last'.res = "ok" /\ last'.n = 0
                  /\ last'.tag = <<"pre-rollback", now>>
                  /\ commits' = commits /\ work' = work /\ index' = index]_vars

\* C9 witness: a dry run in to-tag mode on a store with two commits besides
\* the initial one.
C9_Witness ==
  /\ last.op = "rollback" /\ last.arg.dryRun /\ last.arg.mode = "to-tag"
  /\ Len(commits) >= 3

TreeAt(k) == IF k = 0 THEN EmptyTree ELSE commits[k].tree

\* C10: a last-n rollback with count N reverts the N most recent commits: N is
\* reported, and the record files equal those of the commit N steps back.
C10_LastN ==
  (/\ last.op = "rollback" /\ last.res = "ok"
   /\ last.arg.mode = "last-n" /\ ~last.arg.dryRun
   /\ last.arg.count <= last.pre)
    => /\ last.n = last.arg.count
       /\ work.files = TreeAt(last.pre - last.arg.count).files

\* The commit a tag names.
TagCommit(t) == (CHOOSE x \in tags : x.name = t).commit

\* C11: a successful to-tag rollback reverts exactly the commits made after
\* the tag (as many as the history had beyond the tagged commit) and the
\* record files equal those of the tagged commit.
C11_ToTag ==
  (/\ last.op = "rollback" /\ last.res = "ok"
   /\ last.arg.mode = "to-tag" /\ ~last.arg.dryRun)
    => /\ last.n = last.pre - TagCommit(last.arg.tagName)
       /\ work.files = TreeAt(TagCommit(last.arg.tagName)).files

\* C12: a to-commit rollback naming a hash no commit has, or a to-tag rollback
\* naming a tag that does not exist, throws StoreError and adds no commit; a
\* to-commit rollback naming commit h reverts the commits after h and not h.
C12_UnknownRef ==
  (last.op = "rollback" /\ ~last.arg.dryRun)
    => /\ (last.arg.mode = "to-commit" /\ last.arg.commitHash \notin 1..last.pre)
            => (last.res = "StoreError" /\ Len(commits) = last.pre)
       /\ (last.arg.mode = "to-tag" /\ last.arg.tagName \notin {x.name : x \in tags})
            => (last.res = "StoreError" /\ Len(commits) = last.pre)
       /\ (last.arg.mode = "to-commit" /\ last.arg.commitHash \in 1..last.pre)
            => /\ last.res = "ok"
               /\ last.n = last.pre - last.arg.commitHash
               /\ work.files = TreeAt(last.arg.commitHash).files

C15_ModifiedMonotonic ==
  [][\A i \in Ids :
       (get(Store, i).found /\ get(Store', i).found)
         => /\ get(Store', i).contact.modified >= get(Store, i).contact.modified
            /\ (last'.op = "update" /\ last'.res = "ok" /\ last'.arg.id = i)
                 => get(Store', i).contact.modified > get(Store, i).contact.modified]_vars

\* C16: after a successful soft delete of id, get(id) finds the record, in the
\* archived area, and list() does not return it; after a successful permanent
\* delete of id, get(id) finds nothing.
C16_GetAfterDelete ==
  (last.op = "delete" /\ last.res = "ok")
    => IF last.arg.permanent
         THEN ~get(Store, last.arg.id).found
         ELSE /\ get(Store, last.arg.id).found
              /\ Archived(last.arg.id)
              /\ last.arg.id \notin list(Store, FALSE)

\* C17: a successful mergeAndArchive leaves the primary id active with the
\* merged content, every secondary id archived and not active, and the merge
\* log longer by exactly one entry naming the primary and the secondaries.
C17_MergeAndArchive ==
  [][(last'.op = "mergeAndArchive" /\ last'.res = "ok")
       => /\ work'.files[contactPath(last'.arg.primaryId)] = last'.arg.merged
          /\ \A k \in 1..Len(last'.arg.secondaryIds) :
               /\ work'.files[archivePath(last'.arg.secondaryIds[k])] # NoFile
               /\ work'.files[contactPath(last'.arg.secondaryIds[k])] = NoFile
          /\ Len(mergeLog') = Len(mergeLog) + 1
          /\ SubSeq(mergeLog', 1, Len(mergeLog)) = mergeLog
          /\ mergeLog'[Len(mergeLog')] = [timestamp |-> now,
                                         primaryId |-> last'.arg.primaryId,
                                         secondaryIds |-> last'.arg.secondaryIds]]_vars

\* C18: a successful create or bulkCreate leaves every record file that
\* existed before it, active or archived, in place with the same content.
C18_IdsUnique ==
  [][(last'.op \in {"create", "bulkCreate"} /\ last'.res = "ok")
       => \A p \in RecPaths : work.files[p] # NoFile => work'.files[p] = work.files[p]]_vars

\* C19: update or delete of an id that has no file in either area throws
\* ContactNotFoundError inside the locked section and changes no file, index,
\* commit, tag or merge log; the release that follows removes the lock.
C19_NotFound ==
  [][\A p \in Procs :
       /\ (/\ pc[p] = "body" /\ pc'[p] = "release"
           /\ req[p].op \in {"update", "delete"}
           /\ ~get(Store, req[p].id).found)
            => (out'[p] = "ContactNotFoundError" /\ UNCHANGED StoreVars)
       /\ (pc[p] = "release" /\ pc'[p] = "done" /\ out[p] = "ContactNotFoundError")
            => lock' = NoLock]_vars

\* C19 witness: an update or delete of an absent id has thrown
\* ContactNotFoundError and returned, and the lock is free.
C19_Witness ==
  \E p \in Procs :
    /\ pc[p] = "done" /\ out[p] = "ContactNotFoundError"
    /\ req[p].op \in {"update", "delete"}
    /\ last.op = "releaseLock" /\ last.proc = p
    /\ lock = NoLock

\* C20: init on an initialised store leaves every file, the index, every
\* commit and every tag as they were: no second initial commit.
C20_InitIdempotent ==
  [][(last'.op = "init" /\ now' # now)
       => /\ work' = work /\ index' = index
          /\ commits' = commits /\ tags' = tags
          /\ Cardinality({k \in 1..Len(commits') : commits'[k].msg = "Initial commit"}) = 1]_vars

\* C20 witness: init was called again on a store that holds a record, a
\* commit besides the initial one and a tag.
C20_Witness ==
  /\ last.op = "init" /\ now > 1
  /\ Len(commits) >= 2 /\ tags # {}
  /\ \E i \in Ids : Active(i) \/ Archived(i)

\* C14: an update leaves the stored value of every field it does not name as
\* it was: the FN, NOTE and CATEGORIES lines of the file are the same text
\* before and after, and only REV advances.
C14_UpdateFrame ==
  [][(last'.op = "update" /\ last'.res = "ok")
       => /\ "fullName" \notin last'.has => vcard'.FN = vcard.FN
          /\ "notes" \notin last'.has => vcard'.NOTE = vcard.NOTE
          /\ "categories" \notin last'.has => vcard'.CATEGORIES = vcard.CATEGORIES
          /\ vcard'.REV > vcard.REV]_vars

\* ------------------------------------------------------ merge resolver
Merged == returned.mergedContact
HasMerged == last.op = "mergeContacts" /\ returned.res = "ok"

\* C21: for every list of at least 2 records, every strategy and every
\* fieldOverrides, the merged record has the id of the first input record and
\* archived = false, and sourceContactIds lists the input ids in input order.
C21_PrimaryId ==
  HasMerged
    => /\ Merged.id = contacts[1].id
       /\ Merged.metadata.archived = FALSE
       /\ returned.sourceContactIds = [i \in 1..Len(contacts) |-> contacts[i].id]

\* C21 witness: a merge whose strategy chose another record than the first,
\* an archived one, and that had an override to apply.
C21_Witness ==
  /\ HasMerged
  /\ byStrategy(contacts, args.strategy).id # contacts[1].id
  /\ byStrategy(contacts, args.strategy).metadata.archived
  /\ args.fieldOverrides # <<>>
  /\ Merged.id = contacts[1].id

\* The first record, in input order, that maps provider p.
FirstWith(p) ==
  CHOOSE i \in 1..Len(contacts) :
    /\ p \in DOMAIN contacts[i].metadata.providerIds
    /\ \A j \in 1..(i - 1) : p \notin DOMAIN contacts[j].metadata.providerIds

\* C22: for every strategy, the merged provider-id mapping has every provider
\* that any source record maps, each with the value of the first source
\* record in input order that maps it.
C22_ProviderIds ==
  HasMerged
    => /\ DOMAIN Merged.metadata.providerIds
            = UNION {DOMAIN contacts[i].metadata.providerIds : i \in 1..Len(contacts)}
       /\ \A p \in DOMAIN Merged.metadata.providerIds :
            Merged.metadata.providerIds[p] = contacts[FirstWith(p)].metadata.providerIds[p]

\* C23: a single union merge of 2 or more records yields an email list that
\* contains every email of every input record (compared ignoring case), has
\* no two entries equal ignoring case, and starts with the primary's emails
\* in their order.
C23_UnionEmails ==
  (HasMerged /\ args.strategy = "union" /\ args.fieldOverrides = <<>>)
    => /\ \A i \in 1..Len(contacts) : \A k \in 1..Len(contacts[i].emails) :
            \E m \in 1..Len(Merged.emails) :
              toLowerCase(Merged.emails[m]) = toLowerCase(contacts[i].emails[k])
       /\ \A m, n \in 1..Len(Merged.emails) :
            m # n => toLowerCase(Merged.emails[m]) # toLowerCase(Merged.emails[n])
       /\ Len(Merged.emails) >= Len(contacts[1].emails)
       /\ SubSeq(Merged.emails, 1, Len(contacts[1].emails)) = contacts[1].emails

\* The fields of a record an override can name; the structured name goes
\* with the display name.
ContentFields == OverrideFields \cup {"urls"}
Named == {args.fieldOverrides[k][1] : k \in 1..Len(args.fieldOverrides)}
Entries == {args.fieldOverrides[k] : k \in 1..Len(args.fieldOverrides)}
Sourced == {e \in Entries : findById(contacts, e[2]) # 0}

\* C24: fieldOverrides are applied after the strategy: for each entry
\* (field -> source id) the merged value of the field is the named source's,
\* every field not named keeps the value the strategy chose, and
\* fieldsFromEach has an entry exactly for the fields taken from their source.
C24_Overrides ==
  HasMerged
    => /\ \A e \in Sourced :
            LET source == contacts[findById(contacts, e[2])]
            IN /\ Merged[e[1]] = source[e[1]]
               /\ e[1] = "fullName" => Merged.name = source.name
       /\ \A f \in ContentFields \ Named :
            Merged[f] = byStrategy(contacts, args.strategy)[f]
       /\ "fullName" \notin Named => Merged.name = byStrategy(contacts, args.strategy).name
       /\ DOMAIN returned.fieldsFromEach = {e[1] : e \in Sourced}
       /\ \A e \in Sourced : returned.fieldsFromEach[e[1]] = e[2]

\* ------------------------------------------------------ linkage engine
Found == last.op = "findDuplicates"
Candidates == returned.candidates
Positions == 1..Len(contacts)

\* The candidates that name the records at positions i and j, in any order.
CandidatesOf(i, j) ==
  {m \in 1..Len(Candidates) :
     {Candidates[m].contactA, Candidates[m].contactB} = {contacts[i].id, contacts[j].id}}

\* The result was cut at limit: a pair may be missing for that reason alone.
Cut == Len(Candidates) = args.limit

SharedEmails(a, b) ==
  {normalizeEmail(a.emails[k]) : k \in 1..Len(a.emails)}
    \cap {normalizeEmail(b.emails[k]) : k \in 1..Len(b.emails)}
SharedPhones(a, b) ==
  {normalizePhone(a.phones[k]) : k \in 1..Len(a.phones)}
    \cap {normalizePhone(b.phones[k]) : k \in 1..Len(b.phones)}
SameOrganization(a, b) ==
  /\ Truthy(a.organization) /\ Truthy(b.organization)
  /\ toLowerCase(a.organization) = toLowerCase(b.organization)
HasDomain(e) == Len(splitOn(e, "@", <<>>)) >= 2 /\ splitOn(e, "@", <<>>)[2] # <<>>

\* C25: two records sharing one normalized email value are reported by
\* findDuplicates (threshold at most 0.95) as a pair with confidence exactly
\* 0.95, however their other fields differ.
C25_SharedEmail ==
  (Found /\ args.threshold <= 95 /\ ~Cut)
    => \A i, j \in Positions :
         (i < j /\ SharedEmails(contacts[i], contacts[j]) # {})
           => \E m \in CandidatesOf(i, j) : Candidates[m].confidence = 95

\* C25 as amended: two records sharing one normalized email value that has a
\* domain part are reported (threshold at most 0.95, the result not cut at
\* limit) as a pair with confidence 0.95, or 1.00 when both have the same
\* organization name ignoring case.
C25_SharedEmailAmended ==
  (Found /\ args.threshold <= 95 /\ ~Cut)
    => \A i, j \in Positions :
         (i < j /\ \E e \in SharedEmails(contacts[i], contacts[j]) : HasDomain(e))
           => \E m \in CandidatesOf(i, j) :
                Candidates[m].confidence
                  = IF SameOrganization(contacts[i], contacts[j]) THEN 100 ELSE 95

\* C25 witness: a reported pair that shares an email with a domain part and
\* differs in name, phone and organization.
C25_Witness ==
  /\ Found /\ args.threshold = 95 /\ Len(contacts) = 2
  /\ \E e \in SharedEmails(contacts[1], contacts[2]) : HasDomain(e)
  /\ contacts[1].emails # contacts[2].emails
  /\ contacts[1].fullName # contacts[2].fullName
  /\ contacts[1].organization # contacts[2].organization
  /\ SharedPhones(contacts[1], contacts[2]) = {}
  /\ \E m \in CandidatesOf(1, 2) : Candidates[m].confidence = 95

\* Given and family name swapped: by the structured parts, or the display
\* names "G F" and "F, G".
SwappedNames(a, b) ==
  LET ga == toLowerCase(OrEmpty(a.name.givenName))
      fa == toLowerCase(OrEmpty(a.name.familyName))
      gb == toLowerCase(OrEmpty(b.name.givenName))
      fb == toLowerCase(OrEmpty(b.name.familyName))
  IN /\ ga # <<>> /\ fa # <<>> /\ ga # fa
     /\ \/ ga = fb /\ fa = gb
        \/ /\ a.fullName = a.name.givenName \o <<" ">> \o a.name.familyName
           /\ b.fullName = a.name.familyName \o <<",", " ">> \o a.name.givenName

\* C26: two records whose given and family names are swapped are reported by
\* findDuplicates at threshold 0.5 as exactly one candidate, the swapped-parts
\* rule giving name similarity 0.90 and confidence 0.70 (more only when an
\* email, a phone or the organization matches too).
C26_SwappedNames ==
  (Found /\ args.threshold = 50 /\ ~Cut)
    => \A i, j \in Positions :
         (i < j /\ (SwappedNames(contacts[i], contacts[j]) \/ SwappedNames(contacts[j], contacts[i])))
           => /\ Cardinality(CandidatesOf(i, j)) = 1
              /\ computeNameSimilarity(contacts[i], contacts[j]) = <<90, 100>>
              /\ \A m \in CandidatesOf(i, j) :
                   /\ Candidates[m].confidence >= 70
                   /\ (/\ SharedEmails(contacts[i], contacts[j]) = {}
                       /\ SharedPhones(contacts[i], contacts[j]) = {}
                       /\ ~SameOrganization(contacts[i], contacts[j]))
                        => Candidates[m].confidence = 70

KeysOf(c) == {blockKeys(c)[k] : k \in 1..Len(blockKeys(c))}

Reorderings(cs) ==
  {[i \in 1..Len(cs) |-> cs[p[i]]] :
     p \in {q \in [1..Len(cs) -> 1..Len(cs)] : \A x, y \in 1..Len(cs) : x # y => q[x] # q[y]}}

\* The unordered pairs of a result, each with its confidence.
PairsOf(cands) ==
  {[pair |-> {cands[m].contactA, cands[m].contactB}, confidence |-> cands[m].confidence]
     : m \in 1..Len(cands)}

\* C28: findDuplicates does not depend on the order of its input: for every
\* permutation of the same records the same unordered pairs are reported
\* with the same confidences.
C28_OrderIndependent ==
  Found
    => \A cs \in Reorderings(contacts) :
         PairsOf(findDuplicates(cs, args.threshold, args.limit)) = PairsOf(Candidates)

\* C29: the record codec round-trips text with backslash, semicolon, comma
\* and newline: whatever text field carries such a text, decoding the
\* encoded contact gives the same field values and the same number and
\* order of repeated fields.
Decoded == args.op = "roundTrip" /\ last.op = "vcardToContact"
C29_RoundTrip == Decoded => returned.contact = contacts[1]

\* C30: after a sync push that created a local record on the provider, the
\* file of that record maps the provider to the remote id returned, so that
\* a later push of the record updates that remote record and creates no
\* second one: the provider holds one record of it, the one the file names.
RemotesOf(i) == {k \in 1..Len(remote) : remote[k].from = i}
C30_PushLinks ==
  \A i \in Ids :
    RemotesOf(i) # {} => RemotesOf(i) = {providerIds[i]}

====
